---- MODULE Spec2Model ----
(***************************************************************************)
(* A model of the raycasting engine (src/include/engine.h, src/src/*.c).   *)
(*                                                                         *)
(* Floating point values are modelled as exact rationals <<n, d>> with     *)
(* d >= 0; d = 0 stands for the IEEE values +inf (n > 0), -inf (n < 0) and *)
(* NaN (n = 0).  World coordinates are fixed point with PosScale units per *)
(* cell, camera vectors are fixed point with DirScale units per 1.0, and   *)
(* door open amounts are fixed point with DoorScale units per 1.0.         *)
(*                                                                         *)
(* The screen and the map are scaled down from engine.h (1280x720 pixels,  *)
(* 64x64 cells, render distance 50) keeping their order:                   *)
(* MAX_RENDER_DISTANCE < MAP_WIDTH - 3.                                     *)
(*                                                                         *)
(* Specifications:                                                         *)
(*   SpecDDA     one call of raycast_dda, an iteration of its loop a step  *)
(*   SpecDoor    the door functions called in any order                    *)
(*   SpecMap     the map accessors called in and out of range              *)
(*   SpecRender  one call of engine_render, a pass a step                  *)
(*   SpecSort    sprite_sort_by_distance on any small array                *)
(*   SpecTexture      the geometry passes with textures missing            *)
(*   SpecCollections  the bounded arrays: particles, scripts, registry,    *)
(*                    audio sources                                        *)
(*   SpecParticles    one call of particle_update                          *)
(*   SpecThreads      threading_render_parallel and its worker threads     *)
(*   SpecAudio        audio_play, audio_stop and play_sound against the    *)
(*                    audio callback                                       *)
(*   SpecLighting     apply_lighting on a painted buffer                   *)
(*   SpecBloom        post_process_bloom on a painted buffer               *)
(*   SpecLoop         the main loop: events, update, render                *)
(*   SpecSample       texture_sample and texture_sample_bilinear at any   *)
(*                    coordinates                                          *)
(*   SpecFloor        the floor and ceiling loop, a row a step             *)
(*   SpecPostFx       the post-processing stages, a pixel a step           *)
(*   SpecDoorLive     a door updated every frame after its last command    *)
(*   SpecHeldKey      the E key held down over the frames                  *)
(*   SpecPhysics      one call of physics_update on a free body            *)
(*   SpecIndices      engine_render on scenes at the edges of the buffers  *)
(***************************************************************************)
EXTENDS Integers, Sequences, FiniteSets, TLC

SCREEN_WIDTH == 4
SCREEN_HEIGHT == 6
MAP_WIDTH == 8
MAP_HEIGHT == 6
MAX_RENDER_DISTANCE == 4
PosScale == 2
DirScale == 100
DoorScale == 10

VARIABLES
    world,          \* WorldMap: tiles, heights, texture ids, doors
    texture_count,  \* Engine.texture_count
    textures,       \* Engine.textures, by texture id
    camera,         \* Camera
    sprites,        \* Engine.sprites[0 .. sprite_count-1], as a sequence
    particles,      \* Engine.particles[0 .. particle_count-1], as a sequence
    z_buffer,       \* RenderBuffers.z_buffer, one depth per screen column
    color_buffer,   \* RenderBuffers.color_buffer, one pixel per index y*W+x
    post_fx,        \* PostProcessing flags
    pc,             \* position of the main thread
    passes,         \* the passes engine_render has run in this frame
    writes,         \* the stores of this frame into the z-buffer and by the
                    \* compositors into the colour buffer, in order; under
                    \* SpecMap the map_set_tile calls made, under SpecAudio
                    \* the stores of the last step into an audio source
    ray,            \* the Ray of the raycast_dda call in progress
    call,           \* the last call of a map or door function and its result
    scripts,        \* Engine.scripts[0 .. script_count-1], as a sequence
    function_registry, \* scripting.c function_registry[0 .. registry_count-1]
    audio_sources,  \* Engine.audio_sources[0 .. audio_source_count-1]
    audio,          \* audio.c: audio_device, who holds the device lock, and
                    \* the source the running callback has come to
    thread_pool,    \* Engine.use_multithreading and Engine.thread_pool
    workers,        \* the threads started by threading_render_parallel
    lights,         \* Engine.lights[0 .. light_count-1], as a sequence
    app,            \* Application.running and keys, and main's delta_time
    engine,         \* Engine.delta_time, frame_count and time_accumulator
    steps           \* the steps engine_update has run in this iteration of
                    \* the main loop

\* The subsystems engine_render and the map, door and ray functions never touch.
subsystems == <<scripts, function_registry, audio_sources, audio, thread_pool,
                workers, lights, app, engine, steps>>

vars == <<world, texture_count, textures, camera, sprites, particles, z_buffer,
          color_buffer, post_fx, pc, passes, writes, ray, call, subsystems>>

---------------------------------------------------------------------------
(* Rational arithmetic standing for float arithmetic.                      *)

Abs(n) == IF n < 0 THEN -n ELSE n

Sign(n) == IF n < 0 THEN -1 ELSE IF n > 0 THEN 1 ELSE 0

RECURSIVE GCD(_, _)
GCD(a, b) == IF b = 0 THEN a ELSE GCD(b, a % b)

\* n/d in lowest terms with a denominator >= 0.
Rat(n, d) ==
    IF d = 0 THEN <<Sign(n), 0>>
    ELSE LET g == GCD(Abs(n), Abs(d))
         IN  <<Sign(d) * (n \div g), Abs(d) \div g>>

IsNaN(a) == a[1] = 0 /\ a[2] = 0

IsFinite(a) == a[2] # 0

\* a < b as IEEE compares: false when either side is NaN.
RLt(a, b) ==
    IF IsNaN(a) \/ IsNaN(b) THEN FALSE
    ELSE IF a[2] = 0 /\ b[2] = 0 THEN a[1] < b[1]
    ELSE a[1] * b[2] < b[1] * a[2]

RLe(a, b) == ~IsNaN(a) /\ ~IsNaN(b) /\ (a = b \/ RLt(a, b))

\* (int)(n/d) for d > 0: C truncates toward zero.
Trunc(n, d) == IF n >= 0 THEN n \div d ELSE -((-n) \div d)

RenderDistance == <<MAX_RENDER_DISTANCE, 1>>

Columns == 0 .. SCREEN_WIDTH - 1

Rows == 0 .. SCREEN_HEIGHT - 1

---------------------------------------------------------------------------
(* World map (map.c).                                                      *)

InMap(x, y) == x >= 0 /\ x < MAP_WIDTH /\ y >= 0 /\ y < MAP_HEIGHT

\* map_get_tile as it would read with out of bounds = open.
map_get_tile_open(map, x, y) ==
    IF x < 0 \/ x >= MAP_WIDTH \/ y < 0 \/ y >= MAP_HEIGHT THEN 0
    ELSE map.tiles[y][x]

map_get_tile(map, x, y) ==
    IF x < 0 \/ x >= MAP_WIDTH \/ y < 0 \/ y >= MAP_HEIGHT THEN 1
    ELSE map.tiles[y][x]

map_set_tile(map, x, y, value) ==
    IF x >= 0 /\ x < MAP_WIDTH /\ y >= 0 /\ y < MAP_HEIGHT
    THEN [map EXCEPT !.tiles[y][x] = value]
    ELSE map

\* Heights are fixed point, DoorScale units per 1.0.
map_get_floor_height(map, x, y) ==
    IF x < 0 \/ x >= MAP_WIDTH \/ y < 0 \/ y >= MAP_HEIGHT THEN 0
    ELSE map.floor_heights[y][x]

map_get_ceiling_height(map, x, y) ==
    IF x < 0 \/ x >= MAP_WIDTH \/ y < 0 \/ y >= MAP_HEIGHT THEN DoorScale
    ELSE map.ceiling_heights[y][x]

---------------------------------------------------------------------------
(* Wall caster (engine.c, raycast_dda).                                    *)

\* ray->direction = camera.direction + camera.plane * camera_x with
\* camera_x = 2x/SCREEN_WIDTH - 1, as numerators over DirDen.
DirDen == DirScale * SCREEN_WIDTH

RayDirection(cam, x) ==
    <<cam.direction[1] * SCREEN_WIDTH + cam.plane[1] * (2 * x - SCREEN_WIDTH),
      cam.direction[2] * SCREEN_WIDTH + cam.plane[2] * (2 * x - SCREEN_WIDTH)>>

\* The Ray as raycast_dda leaves it before its loop. The caller passes a zeroed
\* Ray, so ray->distance is 0 and ray->texture_id is 0. side_dist_x stands for
\* side_dist_x * |direction.x| * PosScale / DirDen (likewise y): one
\* delta_dist_x is then PosScale.
RayInit(cam, x) ==
    LET d  == RayDirection(cam, x)
        mx == cam.position[1] \div PosScale
        my == cam.position[2] \div PosScale
    IN  [ x |-> x,
          origin |-> cam.position,
          direction |-> d,
          map_x |-> mx,
          map_y |-> my,
          step_x |-> IF d[1] < 0 THEN -1 ELSE 1,
          step_y |-> IF d[2] < 0 THEN -1 ELSE 1,
          side_dist_x |-> IF d[1] < 0 THEN cam.position[1] - mx * PosScale
                          ELSE mx * PosScale + PosScale - cam.position[1],
          side_dist_y |-> IF d[2] < 0 THEN cam.position[2] - my * PosScale
                          ELSE my * PosScale + PosScale - cam.position[2],
          side |-> 0,
          hit |-> FALSE,
          left_map |-> FALSE,
          hit_door |-> FALSE,
          door_state |-> 0,
          texture_id |-> 0,
          distance |-> <<0, 1>>,
          perpendicular_distance |-> <<0, 1>>,
          z_height |-> 0,
          iterations |-> 0,
          tied |-> FALSE,
          prev |-> <<mx, my>>,
          returned |-> FALSE ]

\* side_dist_x = side_dist_y exactly (both finite, or both +inf).
SideDistEqual(r) ==
    IF r.direction[1] = 0 \/ r.direction[2] = 0
    THEN r.direction[1] = 0 /\ r.direction[2] = 0
    ELSE r.side_dist_x * Abs(r.direction[2]) = r.side_dist_y * Abs(r.direction[1])

\* The comparison as it would read with <= for <.
SideDistLessOrEqual(r) ==
    IF r.direction[1] = 0 THEN FALSE
    ELSE IF r.direction[2] = 0 THEN TRUE
    ELSE r.side_dist_x * Abs(r.direction[2]) <= r.side_dist_y * Abs(r.direction[1])

\* side_dist_x < side_dist_y; a zero direction component makes its delta_dist
\* and side_dist +inf.
SideDistLess(r) ==
    IF r.direction[1] = 0 THEN FALSE
    ELSE IF r.direction[2] = 0 THEN TRUE
    ELSE r.side_dist_x * Abs(r.direction[2]) < r.side_dist_y * Abs(r.direction[1])

\* if (side_dist_x < side_dist_y) step along x, side 0; else along y, side 1.
\* tied and prev record the comparison and the cell the step started from.
Advance(r) ==
    LET r0 == [r EXCEPT !.tied = SideDistEqual(r), !.prev = <<r.map_x, r.map_y>>]
    IN  IF SideDistLess(r)
        THEN [r0 EXCEPT !.side_dist_x = @ + PosScale, !.map_x = @ + r.step_x,
                        !.side = 0]
        ELSE [r0 EXCEPT !.side_dist_y = @ + PosScale, !.map_y = @ + r.step_y,
                        !.side = 1]

\* The index of the first door standing in the ray's cell, 0 if none.
DoorAt(map, r) ==
    LET S == {i \in 1 .. Len(map.doors) :
                 map.doors[i].x = r.map_x /\ map.doors[i].y = r.map_y}
    IN  IF S = {} THEN 0 ELSE CHOOSE i \in S : \A j \in S : i <= j

\* door_pos - (int)door_pos < door->open_amount. door_pos is taken along y
\* with side_dist_x for a horizontal door and along x with side_dist_y for a
\* vertical one. With an infinite side_dist the product is +-inf or NaN, which
\* stays so after the subtraction, and the comparison is false.
DoorPosLess(r, door) ==
    LET o  == IF door.horizontal THEN r.origin[2] ELSE r.origin[1]
        dn == IF door.horizontal THEN r.direction[2] ELSE r.direction[1]
        sd == IF door.horizontal THEN r.side_dist_x ELSE r.side_dist_y
        dd == Abs(IF door.horizontal THEN r.direction[1] ELSE r.direction[2])
        n  == o * dd + dn * sd
        d  == PosScale * dd
        f  == n - Trunc(n, d) * d
    IN  IF dd = 0 THEN FALSE
        ELSE f * DoorScale < door.open_amount * d

\* The body of the loop after the step: the bounds check, the doors, the tile.
Probe(map, r) ==
    IF r.map_x < 0 \/ r.map_x >= MAP_WIDTH \/ r.map_y < 0 \/ r.map_y >= MAP_HEIGHT
    THEN [r EXCEPT !.left_map = TRUE]
    ELSE LET i  == DoorAt(map, r)
             r1 == IF i # 0 /\ DoorPosLess(r, map.doors[i])
                   THEN [r EXCEPT !.hit_door = TRUE,
                                  !.door_state =
                                      Trunc(map.doors[i].open_amount * 100, DoorScale),
                                  !.texture_id = map.doors[i].texture_id,
                                  !.hit = TRUE]
                   ELSE r
         IN  IF map_get_tile(map, r.map_x, r.map_y) > 0
             THEN [r1 EXCEPT !.hit = TRUE,
                             !.texture_id = map.wall_textures[r.map_y][r.map_x]]
             ELSE r1

\* while (!hit && ray->distance < MAX_RENDER_DISTANCE), left by break once
\* the ray is outside the map.
LoopCondition(r) ==
    ~r.hit /\ ~r.left_map /\ RLt(r.distance, RenderDistance)

Iterate(map, r) ==
    [Probe(map, Advance(r)) EXCEPT !.iterations = @ + 1]

\* The distance as it would read without the (1 - step) / 2 term.
DistanceToCellOrigin(r) ==
    IF r.side = 0
    THEN Rat((r.map_x * PosScale - r.origin[1]) * DirDen, PosScale * r.direction[1])
    ELSE Rat((r.map_y * PosScale - r.origin[2]) * DirDen, PosScale * r.direction[2])

\* (map_x - origin.x + (1 - step_x) / 2) / direction.x, likewise y; the
\* division (1 - step) / 2 is an integer one.
PerpendicularDistance(r) ==
    IF r.side = 0
    THEN Rat(((r.map_x + (1 - r.step_x) \div 2) * PosScale - r.origin[1]) * DirDen,
             PosScale * r.direction[1])
    ELSE Rat(((r.map_y + (1 - r.step_y) \div 2) * PosScale - r.origin[2]) * DirDen,
             PosScale * r.direction[2])

Finish(map, r) ==
    [r EXCEPT !.perpendicular_distance = PerpendicularDistance(r),
              !.distance = PerpendicularDistance(r),
              !.z_height = map_get_floor_height(map, r.map_x, r.map_y),
              !.returned = TRUE]

RECURSIVE RunLoop(_, _)
RunLoop(map, r) ==
    IF LoopCondition(r) THEN RunLoop(map, Iterate(map, r)) ELSE r

raycast_dda(map, cam, x) == Finish(map, RunLoop(map, RayInit(cam, x)))

---------------------------------------------------------------------------
(* Door system (physics.c). open_amount is fixed point, DoorScale units    *)
(* per 1.0; delta_time is in units of 1/DoorScale seconds.                 *)

DOOR_SPEED == 2

\* door_open as it would read without is_closing = false.
door_open_keeps_closing(door) ==
    IF ~door.is_opening /\ door.open_amount < DoorScale
    THEN [door EXCEPT !.is_opening = TRUE]
    ELSE door

door_open(door) ==
    IF ~door.is_opening /\ door.open_amount < DoorScale
    THEN [door EXCEPT !.is_opening = TRUE, !.is_closing = FALSE]
    ELSE door

door_close(door) ==
    IF ~door.is_closing /\ door.open_amount > 0
    THEN [door EXCEPT !.is_closing = TRUE, !.is_opening = FALSE]
    ELSE door

\* door_update as it would read without its two clamps.
door_update_unclamped(door, delta_time) ==
    LET d1 == IF door.is_opening
              THEN [door EXCEPT !.open_amount = @ + DOOR_SPEED * delta_time]
              ELSE door
    IN  IF d1.is_closing
        THEN [d1 EXCEPT !.open_amount = @ - DOOR_SPEED * delta_time]
        ELSE d1

\* door_update as it would read with is_opening left set at the clamp.
door_update_keeps_opening(door, delta_time) ==
    LET up == door.open_amount + DOOR_SPEED * delta_time
        d1 == IF door.is_opening
              THEN [door EXCEPT !.open_amount = IF up >= DoorScale THEN DoorScale ELSE up]
              ELSE door
        dn == d1.open_amount - DOOR_SPEED * delta_time
    IN  IF d1.is_closing
        THEN IF dn <= 0
             THEN [d1 EXCEPT !.open_amount = 0, !.is_closing = FALSE]
             ELSE [d1 EXCEPT !.open_amount = dn]
        ELSE d1

door_update(door, delta_time) ==
    LET up == door.open_amount + DOOR_SPEED * delta_time
        d1 == IF door.is_opening
              THEN IF up >= DoorScale
                   THEN [door EXCEPT !.open_amount = DoorScale, !.is_opening = FALSE]
                   ELSE [door EXCEPT !.open_amount = up]
              ELSE door
        dn == d1.open_amount - DOOR_SPEED * delta_time
    IN  IF d1.is_closing
        THEN IF dn <= 0
             THEN [d1 EXCEPT !.open_amount = 0, !.is_closing = FALSE]
             ELSE [d1 EXCEPT !.open_amount = dn]
        ELSE d1

\* open_amount >= 0.9f
NearlyOpen(door) == door.open_amount * 10 >= 9 * DoorScale

\* The test as it would read with > for >=.
door_check_collision_gt(door, position) ==
    IF door.open_amount * 10 > 9 * DoorScale THEN FALSE
    ELSE LET dx == Abs(2 * position[1] - (2 * door.x + 1) * PosScale)
             dy == Abs(2 * position[2] - (2 * door.y + 1) * PosScale)
             g  == (DoorScale - door.open_amount) * PosScale
         IN  IF door.horizontal
             THEN dx < PosScale /\ dy * DoorScale < g
             ELSE dy < PosScale /\ dx * DoorScale < g

\* dx = |position.x - (door.x + 0.5)| and dy likewise, here times 2 * PosScale;
\* the gap left by the door is (1 - open_amount) * 0.5.
door_check_collision(door, position) ==
    IF NearlyOpen(door) THEN FALSE
    ELSE LET dx == Abs(2 * position[1] - (2 * door.x + 1) * PosScale)
             dy == Abs(2 * position[2] - (2 * door.y + 1) * PosScale)
             g  == (DoorScale - door.open_amount) * PosScale
         IN  IF door.horizontal
             THEN dx < PosScale /\ dy * DoorScale < g
             ELSE dy < PosScale /\ dx * DoorScale < g

---------------------------------------------------------------------------
(* Scenes: the worlds and cameras the operations are run on.               *)

Border(x, y) == x = 0 \/ x = MAP_WIDTH - 1 \/ y = 0 \/ y = MAP_HEIGHT - 1

\* A world as map_generate_procedural leaves it: a solid border around
\* carved cells, whose heights differ from the walls' 0.0 and 1.0, and doors
\* standing in passable cells; `solid` are the interior cells left solid and
\* `open` the border cells map_set_tile or map_load_from_file has opened.
MakeWorld(solid, open, doors, tex) ==
    [ tiles |-> [y \in 0 .. MAP_HEIGHT - 1 |-> [x \in 0 .. MAP_WIDTH - 1 |->
                    IF <<x, y>> \in open THEN 0
                    ELSE IF Border(x, y) \/ <<x, y>> \in solid THEN 1 ELSE 0]],
      floor_heights |-> [y \in 0 .. MAP_HEIGHT - 1 |-> [x \in 0 .. MAP_WIDTH - 1 |->
                    IF Border(x, y) \/ <<x, y>> \in solid THEN 0 ELSE 1]],
      ceiling_heights |-> [y \in 0 .. MAP_HEIGHT - 1 |-> [x \in 0 .. MAP_WIDTH - 1 |->
                    IF Border(x, y) \/ <<x, y>> \in solid THEN DoorScale
                    ELSE DoorScale + 2]],
      wall_textures |-> [y \in 0 .. MAP_HEIGHT - 1 |-> [x \in 0 .. MAP_WIDTH - 1 |-> tex]],
      floor_textures |-> [y \in 0 .. MAP_HEIGHT - 1 |-> [x \in 0 .. MAP_WIDTH - 1 |-> tex]],
      ceiling_textures |-> [y \in 0 .. MAP_HEIGHT - 1 |-> [x \in 0 .. MAP_WIDTH - 1 |-> tex]],
      doors |-> doors ]

Layouts ==
    { [solid |-> {}, open |-> {}],
      [solid |-> {<<4, 2>>}, open |-> {}],
      [solid |-> {<<3, 3>>}, open |-> {}],
      [solid |-> {}, open |-> {<<MAP_WIDTH - 1, 2>>}],
      [solid |-> {}, open |-> {<<3, 0>>}] }

Door(x, y, amount, horizontal) ==
    [ x |-> x, y |-> y, open_amount |-> amount, is_opening |-> FALSE,
      is_closing |-> FALSE, texture_id |-> 0, horizontal |-> horizontal ]

DoorSets ==
    {<<>>} \cup {<<Door(3, 2, a, h)>> : a \in {0, DoorScale \div 2 + 1}, h \in BOOLEAN}

\* cos and sin of the angle the initial camera has been rotated by.
Diag == (71 * DirScale) \div 100

Angles ==
    { <<DirScale, 0>>, <<0, DirScale>>, <<-DirScale, 0>>, <<0, -DirScale>>,
      <<Diag, Diag>>, <<-Diag, -Diag>> }

\* engine_init's direction (-1, 0) and plane (0, 0.66) after camera_rotate.
PlaneLen == (66 * DirScale) \div 100

Camera(pos, angle) ==
    [ position |-> pos,
      direction |-> <<-angle[1], -angle[2]>>,
      plane |-> <<-Trunc(PlaneLen * angle[2], DirScale),
                  Trunc(PlaneLen * angle[1], DirScale)>>,
      pitch |-> 0,
      z_position |-> 5,
      bob_offset |-> 0,
      bob_phase |-> 0,
      crouching |-> FALSE,
      physics |-> [position |-> pos, velocity |-> <<0, 0>>] ]

Half == PosScale \div 2

CamXs == {PosScale + Half, 2 * PosScale, 4 * PosScale + Half}

CamYs == {PosScale + Half, 2 * PosScale + Half, 3 * PosScale}

\* The camera's physics body keeps it inside open cells and off the walls: its
\* cell is open and so is the cell across a cell boundary it stands on.
CameraFree(map, pos) ==
    LET cx == pos[1] \div PosScale
        cy == pos[2] \div PosScale
        xs == IF pos[1] % PosScale = 0 THEN {cx - 1, cx} ELSE {cx}
        ys == IF pos[2] % PosScale = 0 THEN {cy - 1, cy} ELSE {cy}
    IN  \A x \in xs, y \in ys : InMap(x, y) /\ map.tiles[y][x] = 0

NoCall == [op |-> "none"]

NoRay == RayInit(Camera(<<0, 0>>, <<DirScale, 0>>), 0)

\* Engine.textures has MAX_TEXTURES slots (32 in engine.h).
MAX_TEXTURES == 4

\* A colour is <<r, g, b>>, each channel a uint8_t.
Magenta == <<255, 0, 255>>

\* Texture.pixels when no pixel data was allocated (a null pointer): the
\* pixel array of a texture is a sequence of colours, here of one texel.
NoPixels == <<>>

\* The base colours of the four procedural textures main generates (brick,
\* stone, wood, metal).
Texel(i) ==
    CASE i = 0 -> <<150, 80, 70>>
      [] i = 1 -> <<100, 100, 100>>
      [] i = 2 -> <<139, 90, 60>>
      [] OTHER -> <<180, 180, 180>>

\* textures[] after engine_init (all zero) and `count` textures generated.
Loaded(count) ==
    [i \in 0 .. MAX_TEXTURES - 1 |->
        [pixels |-> IF i < count THEN <<Texel(i)>> ELSE NoPixels]]

\* Loaded(count) with the pixel data of the textures in `missing` absent.
Unloaded(count, missing) ==
    [i \in 0 .. MAX_TEXTURES - 1 |->
        [pixels |-> IF i < count /\ i \notin missing THEN <<Texel(i)>> ELSE NoPixels]]

\* Worker threads of the column-parallel mode (4 in engine.h).
MAX_THREADS == 3

\* A ThreadPool after memset: thread_handles[i] is 0 for NULL, else the
\* number of the thread it points to.
ZeroedPool ==
    [ use_threading |-> FALSE, job_count |-> 0,
      jobs |-> [i \in 1 .. MAX_THREADS |->
                   [start_column |-> 0, end_column |-> 0, completed |-> FALSE]],
      thread_handles |-> [i \in 1 .. MAX_THREADS |-> 0] ]

\* No thread was ever created: nothing runs, nothing was joined or freed.
NoWorkers ==
    [i \in 1 .. MAX_THREADS |-> [state |-> "none", x |-> 0, joins |-> 0, frees |-> 0]]

\* Before the first iteration of the main loop: no key is down and
\* engine_init's memset has zeroed the frame counters.
InitLoop ==
    /\ app = [running |-> TRUE, keys |-> {}, delta_time |-> 0]
    /\ engine = [delta_time |-> 0, frame_count |-> 0, time_accumulator |-> 0]
    /\ steps = <<>>

\* The state engine_init leaves in the subsystems: no script, no registered
\* function, no audio source, the audio device closed and unlocked, the
\* thread pool zeroed and no worker thread.
InitSubsystems ==
    /\ scripts = <<>>
    /\ function_registry = <<>>
    /\ audio_sources = <<>>
    /\ audio = [device |-> 0, lock |-> "free", cursor |-> 0]
    /\ thread_pool = [use_multithreading |-> FALSE, pool |-> ZeroedPool]
    /\ workers = NoWorkers
    /\ lights = <<>>
    /\ InitLoop

InitFx ==
    [ bloom_enabled |-> TRUE, motion_blur_enabled |-> FALSE,
      chromatic_aberration |-> FALSE, vignette |-> TRUE, fxaa_enabled |-> TRUE ]

ClearZ == [x \in Columns |-> RenderDistance]

ClearColor == [i \in 0 .. SCREEN_WIDTH * SCREEN_HEIGHT - 1 |-> <<"clear">>]

---------------------------------------------------------------------------
(* SpecDDA: one call of raycast_dda, an iteration of its loop per step.    *)

InitDDA ==
    /\ \E l \in Layouts, ds \in DoorSets :
          world = MakeWorld(l.solid, l.open, ds, 0)
    /\ \E px \in CamXs, py \in CamYs, a \in Angles :
          /\ CameraFree(world, <<px, py>>)
          /\ camera = Camera(<<px, py>>, a)
    /\ \E x \in Columns : ray = RayInit(camera, x)
    /\ texture_count = 4
    /\ textures = Loaded(4)
    /\ InitSubsystems
    /\ sprites = <<>>
    /\ particles = <<>>
    /\ z_buffer = ClearZ
    /\ color_buffer = ClearColor
    /\ post_fx = InitFx
    /\ pc = "raycast_dda"
    /\ passes = <<>>
    /\ writes = <<>>
    /\ call = NoCall

DDAIterate ==
    /\ pc = "raycast_dda"
    /\ ~ray.returned
    /\ LoopCondition(ray)
    /\ ray' = Iterate(world, ray)
    /\ UNCHANGED <<subsystems, world, texture_count, textures, camera, sprites, particles, z_buffer,
                   color_buffer, post_fx, pc, passes, writes, call>>

DDAReturn ==
    /\ pc = "raycast_dda"
    /\ ~ray.returned
    /\ ~LoopCondition(ray)
    /\ ray' = Finish(world, ray)
    /\ UNCHANGED <<subsystems, world, texture_count, textures, camera, sprites, particles, z_buffer,
                   color_buffer, post_fx, pc, passes, writes, call>>

NextDDA == DDAIterate \/ DDAReturn

SpecDDA == InitDDA /\ [][NextDDA]_vars

---------------------------------------------------------------------------
(* Properties of raycast_dda, under SpecDDA.                               *)

InDDA == pc = "raycast_dda"

\* The part of C2 the loop meets: every iteration moves one cell further from
\* the camera's cell, so the loop ends within MAP_WIDTH + MAP_HEIGHT
\* iterations, by a hit or by leaving the map, and the distance is >= 0.
DDAEndsAtMapEdge ==
    InDDA =>
        /\ ray.iterations <= MAP_WIDTH + MAP_HEIGHT
        /\ ray.iterations =
              Abs(ray.map_x - ray.origin[1] \div PosScale)
              + Abs(ray.map_y - ray.origin[2] \div PosScale)
        /\ ray.returned => ray.iterations > 0 /\ RLe(<<0, 1>>, ray.distance)

\* C2: raycast_dda terminates, its loop stops once the distance travelled
\* exceeds MAX_RENDER_DISTANCE even when no solid tile is reached, and on
\* return ray.distance >= 0. The distance travelled after an iteration is the
\* perpendicular distance to the cell boundary the ray has just crossed.
C2_LoopStopsAtRenderDistance ==
    InDDA =>
        /\ (~ray.returned /\ ray.iterations > 0
            /\ RLt(RenderDistance, PerpendicularDistance(ray)))
              => ~LoopCondition(ray)
        /\ ray.returned => RLe(<<0, 1>>, ray.distance)

\* C3 as amended: when side_dist_x and side_dist_y are exactly equal the ray
\* advances along y: map_y is stepped, map_x is not, and ray.side is 1.
C3_TieAdvancesY ==
    (InDDA /\ ray.iterations > 0 /\ ray.tied) =>
        /\ ray.side = 1
        /\ ray.map_x = ray.prev[1]
        /\ ray.map_y = ray.prev[2] + ray.step_y

\* C3 as stated: on a tie the ray advances along x first and ray.side is 0.
C3_TieAdvancesX ==
    (InDDA /\ ray.iterations > 0 /\ ray.tied) =>
        /\ ray.side = 0
        /\ ray.map_x = ray.prev[1] + ray.step_x
        /\ ray.map_y = ray.prev[2]

C3_Witness ==
    /\ InDDA /\ ray.iterations > 0 /\ ray.tied
    /\ ray.direction[1] # 0 /\ ray.direction[2] # 0
    /\ ray.side = 1 /\ ray.map_y = ray.prev[2] + ray.step_y

\* A camera looking along a grid axis, its plane perpendicular to it.
AxisAligned(cam) ==
    /\ (cam.direction[1] = 0) # (cam.direction[2] = 0)
    /\ cam.direction[1] * cam.plane[1] + cam.direction[2] * cam.plane[2] = 0

\* 0 when the view is along x (the walls across it are hit with side 0).
ViewAxis(cam) == IF cam.direction[2] = 0 THEN 0 ELSE 1

\* The first cell straight ahead of the camera's cell that is solid or
\* outside the map.
RECURSIVE FrontCell(_, _, _, _)
FrontCell(map, cam, x, y) ==
    IF ~InMap(x, y) \/ map.tiles[y][x] > 0 THEN <<x, y>>
    ELSE FrontCell(map, cam, x + Sign(cam.direction[1]), y + Sign(cam.direction[2]))

FrontWall(map, cam) ==
    FrontCell(map, cam,
              cam.position[1] \div PosScale + Sign(cam.direction[1]),
              cam.position[2] \div PosScale + Sign(cam.direction[2]))

\* The world distance from the camera to the near face of that cell, along
\* the view direction.
FrontDistance(map, cam) ==
    LET a == ViewAxis(cam) + 1
        s == Sign(cam.direction[a])
        c == FrontWall(map, cam)[a]
    IN  IF s > 0 THEN Rat(c * PosScale - cam.position[a], PosScale)
        ELSE Rat(cam.position[a] - (c + 1) * PosScale, PosScale)

HitsFrontFace ==
    /\ ray.returned /\ ray.hit /\ ~ray.hit_door
    /\ ray.side = ViewAxis(camera)
    /\ <<ray.map_x, ray.map_y>>[ViewAxis(camera) + 1]
          = FrontWall(world, camera)[ViewAxis(camera) + 1]

\* C4: with an axis-aligned camera, every column whose ray hits the wall face
\* across the view direction gets that face's distance d along the view
\* direction as perpendicular_distance, whatever its offset from the centre;
\* the centre column hits the wall straight ahead, at d.
C4_PerpendicularDistance ==
    (InDDA /\ AxisAligned(camera)) =>
        /\ HitsFrontFace =>
              ray.perpendicular_distance = FrontDistance(world, camera)
        /\ (ray.returned /\ 2 * ray.x = SCREEN_WIDTH /\ ~ray.hit_door
            /\ InMap(FrontWall(world, camera)[1], FrontWall(world, camera)[2]))
              => /\ ray.hit
                 /\ <<ray.map_x, ray.map_y>> = FrontWall(world, camera)
                 /\ ray.perpendicular_distance = FrontDistance(world, camera)

C4_Witness ==
    /\ InDDA /\ AxisAligned(camera) /\ HitsFrontFace
    /\ 2 * ray.x # SCREEN_WIDTH
    /\ ray.perpendicular_distance = FrontDistance(world, camera)
    /\ RLt(<<2, 1>>, ray.perpendicular_distance)

---------------------------------------------------------------------------
(* SpecDoor: door_open, door_close, door_update and door_check_collision   *)
(* called in any order on the doors of the world.                          *)

MaxDelta == 3

DeltaTimes == 0 .. MaxDelta

\* Positions in and around the door's cell.
ProbePositions ==
    {<<3 * PosScale + dx, 2 * PosScale + dy>> :
        dx \in {0, Half, PosScale}, dy \in {-1, Half, PosScale - 1}}

Rest ==
    /\ texture_count = 4
    /\ textures = Loaded(4)
    /\ InitSubsystems
    /\ sprites = <<>>
    /\ particles = <<>>
    /\ z_buffer = ClearZ
    /\ color_buffer = ClearColor
    /\ post_fx = InitFx
    /\ passes = <<>>
    /\ writes = <<>>
    /\ ray = NoRay
    /\ call = NoCall

InitDoor ==
    /\ \E a \in 0 .. DoorScale, h \in BOOLEAN :
          world = MakeWorld({}, {}, <<Door(3, 2, a, h)>>, 0)
    /\ camera = Camera(<<PosScale + Half, PosScale + Half>>, <<DirScale, 0>>)
    /\ pc = "doors"
    /\ Rest

DoorFrame ==
    UNCHANGED <<subsystems, texture_count, textures, camera, sprites, particles, z_buffer,
                color_buffer, post_fx, pc, passes, writes, ray>>

DoorOpen ==
    /\ pc = "doors"
    /\ \E i \in 1 .. Len(world.doors) :
          /\ world' = [world EXCEPT !.doors[i] = door_open(@)]
          /\ call' = [op |-> "door_open", door |-> world.doors[i],
                      arg |-> <<>>, result |-> FALSE]
    /\ DoorFrame

DoorClose ==
    /\ pc = "doors"
    /\ \E i \in 1 .. Len(world.doors) :
          /\ world' = [world EXCEPT !.doors[i] = door_close(@)]
          /\ call' = [op |-> "door_close", door |-> world.doors[i],
                      arg |-> <<>>, result |-> FALSE]
    /\ DoorFrame

DoorUpdate ==
    /\ pc = "doors"
    /\ \E i \in 1 .. Len(world.doors), dt \in DeltaTimes :
          /\ world' = [world EXCEPT !.doors[i] = door_update(@, dt)]
          /\ call' = [op |-> "door_update", door |-> world.doors[i],
                      arg |-> <<dt>>, result |-> FALSE]
    /\ DoorFrame

DoorCheckCollision ==
    /\ pc = "doors"
    /\ \E i \in 1 .. Len(world.doors), pos \in ProbePositions :
          call' = [op |-> "door_check_collision", door |-> world.doors[i],
                   arg |-> pos,
                   result |-> door_check_collision(world.doors[i], pos)]
    /\ UNCHANGED world
    /\ DoorFrame

NextDoor == DoorOpen \/ DoorClose \/ DoorUpdate \/ DoorCheckCollision

SpecDoor == InitDoor /\ [][NextDoor]_vars

\* C8: a door whose open_amount starts in [0,1] keeps it in [0,1] through
\* any sequence of door_open, door_close and door_update(delta_time >= 0).
C8_OpenAmountInRange ==
    pc = "doors" =>
        \A i \in 1 .. Len(world.doors) :
            world.doors[i].open_amount >= 0 /\ world.doors[i].open_amount <= DoorScale

\* door_update has just cut an overshoot back to 1.
C8_Witness ==
    /\ pc = "doors" /\ call.op = "door_update"
    /\ call.door.is_opening
    /\ call.door.open_amount + DOOR_SPEED * call.arg[1] > DoorScale
    /\ world.doors[1].open_amount = DoorScale

\* C9: door_check_collision returns false for every position whenever
\* open_amount >= 0.9, whatever the orientation and the flags.
C9_NoCollisionWhenOpen ==
    (pc = "doors" /\ call.op = "door_check_collision"
     /\ call.door.open_amount * 10 >= 9 * DoorScale)
        => call.result = FALSE

\* A door open by exactly 0.9 is asked about the centre of its cell, where a
\* less open door collides.
C9_Witness ==
    /\ pc = "doors" /\ call.op = "door_check_collision"
    /\ call.door.open_amount * 10 = 9 * DoorScale
    /\ call.arg = <<call.door.x * PosScale + Half, call.door.y * PosScale + Half>>
    /\ call.result = FALSE

---------------------------------------------------------------------------
(* SpecMap: the map accessors called with coordinates in and out of range. *)

MaxTileWrites == 1

CallXs == {-1, 0, 2, MAP_WIDTH - 1, MAP_WIDTH}

CallYs == {-1, 0, 2, MAP_HEIGHT - 1, MAP_HEIGHT}

InitMap ==
    /\ \E l \in Layouts :
          /\ l.solid = {} /\ l.open \subseteq {<<MAP_WIDTH - 1, 2>>}
          /\ world = MakeWorld(l.solid, l.open, <<>>, 0)
    /\ camera = Camera(<<PosScale + Half, PosScale + Half>>, <<DirScale, 0>>)
    /\ pc = "map"
    /\ Rest

MapFrame ==
    UNCHANGED <<subsystems, texture_count, textures, camera, sprites, particles, z_buffer,
                color_buffer, post_fx, pc, passes, ray>>

MapCall(op, x, y, value, result) ==
    [op |-> op, x |-> x, y |-> y, value |-> value, result |-> result,
     before |-> world.tiles]

MapGetTile ==
    /\ pc = "map"
    /\ \E x \in CallXs, y \in CallYs :
          call' = MapCall("map_get_tile", x, y, 0, map_get_tile(world, x, y))
    /\ UNCHANGED <<world, writes>>
    /\ MapFrame

MapGetFloorHeight ==
    /\ pc = "map"
    /\ \E x \in CallXs, y \in CallYs :
          call' = MapCall("map_get_floor_height", x, y, 0,
                          map_get_floor_height(world, x, y))
    /\ UNCHANGED <<world, writes>>
    /\ MapFrame

MapGetCeilingHeight ==
    /\ pc = "map"
    /\ \E x \in CallXs, y \in CallYs :
          call' = MapCall("map_get_ceiling_height", x, y, 0,
                          map_get_ceiling_height(world, x, y))
    /\ UNCHANGED <<world, writes>>
    /\ MapFrame

MapSetTile ==
    /\ pc = "map"
    /\ Len(writes) < MaxTileWrites
    /\ \E c \in {<<2, 2>>, <<-1, 2>>, <<MAP_WIDTH, 2>>, <<2, -1>>, <<2, MAP_HEIGHT>>},
          v \in {0, 2} :
          /\ world' = map_set_tile(world, c[1], c[2], v)
          /\ call' = MapCall("map_set_tile", c[1], c[2], v, 0)
          /\ writes' = Append(writes, <<c[1], c[2], v>>)
    /\ MapFrame

NextMap == MapGetTile \/ MapGetFloorHeight \/ MapGetCeilingHeight \/ MapSetTile

SpecMap == InitMap /\ [][NextMap]_vars

OutOfRange(x, y) == ~(x \in 0 .. MAP_WIDTH - 1 /\ y \in 0 .. MAP_HEIGHT - 1)

\* C10: out of range, map_get_tile returns a solid tile (> 0),
\* map_get_floor_height 0.0, map_get_ceiling_height 1.0, and map_set_tile
\* leaves the map as it was; in range the getters return the stored value.
C10_OutOfRangeDefaults ==
    (pc = "map" /\ call.op # "none") =>
        /\ call.op = "map_get_tile" =>
              IF OutOfRange(call.x, call.y) THEN call.result > 0
              ELSE call.result = world.tiles[call.y][call.x]
        /\ call.op = "map_get_floor_height" =>
              IF OutOfRange(call.x, call.y) THEN call.result = 0
              ELSE call.result = world.floor_heights[call.y][call.x]
        /\ call.op = "map_get_ceiling_height" =>
              IF OutOfRange(call.x, call.y) THEN call.result = DoorScale
              ELSE call.result = world.ceiling_heights[call.y][call.x]
        /\ (call.op = "map_set_tile" /\ OutOfRange(call.x, call.y)) =>
              world.tiles = call.before

\* map_get_tile is asked for a cell beside an opening of the border, outside
\* the map, and answers with a wall.
C10_Witness ==
    /\ pc = "map" /\ call.op = "map_get_tile"
    /\ call.x = MAP_WIDTH /\ call.y = 2
    /\ world.tiles[2][MAP_WIDTH - 1] = 0
    /\ call.result = 1

---------------------------------------------------------------------------
(* Rasterisation (engine.c, physics.c, particles.c). The buffers are       *)
(* threaded through the passes as a record b = [z, color, log]: the        *)
(* z-buffer, the colour buffer and the stores made so far in the frame.    *)
(* Colour values are not computed: a pixel carries the name of the feature *)
(* that last rasterised it.                                                *)

Zero == <<0, 1>>

Min(a, b) == IF a < b THEN a ELSE b

Max(a, b) == IF a > b THEN a ELSE b

\* (int)(n/d) for any d # 0.
TruncQ(n, d) == IF d < 0 THEN Trunc(-n, -d) ELSE Trunc(n, d)

\* The integers a .. b in ascending order.
Range(a, b) == [k \in 1 .. (b - a + 1) |-> a + k - 1]

\* The pairs <<u, v>> of two loops, the loop over us outside.
Nested(us, vs) ==
    [k \in 1 .. Len(us) * Len(vs) |->
        <<us[((k - 1) \div Len(vs)) + 1], vs[((k - 1) % Len(vs)) + 1]>>]

Pixel(x, y) == y * SCREEN_WIDTH + x

\* A store into z_buffer[x] (by "floor" or "wall", y the floor row) or into
\* the pixel (x, y) of the colour buffer (by "sprite" or "particle" number i).
Store(by, i, x, y, depth) ==
    [by |-> by, i |-> i, x |-> x, y |-> y, depth |-> depth]

\* id >= 0 && id < engine->texture_count
ValidTexture(id, count) == id >= 0 /\ id < count

\* texture_sample and texture_sample_bilinear: magenta when the texture has
\* no pixels, else the texel at (u, v); a texture is one texel here, so every
\* (u, v) wraps to it and the bilinear blend of it with itself is itself.
texture_sample(texture) ==
    IF texture.pixels = NoPixels THEN Magenta ELSE texture.pixels[1]

\* (uint8_t)(channel * shade), shade = 1 / (1 + perpendicular_distance * 0.1),
\* then (uint8_t)(channel * 0.7) on a y side.
Shade(c, perp, side) ==
    LET s(v) == TruncQ(v * 10 * perp[2], 10 * perp[2] + perp[1])
        d(v) == IF side = 1 THEN TruncQ(v * 7, 10) ELSE v
    IN  <<d(s(c[1])), d(s(c[2])), d(s(c[3]))>>

\* row_distance = pos_z / p with p = y - SCREEN_HEIGHT / 2 and
\* pos_z = 0.5 * SCREEN_HEIGHT + z_position * SCREEN_HEIGHT; z_position is in
\* tenths. The first row has p = 0 and row_distance = +inf.
RowDistance(cam, y) ==
    Rat(SCREEN_HEIGHT * (5 + cam.z_position), 10 * (y - SCREEN_HEIGHT \div 2))

\* <<cell_x, cell_y>> of column x in a row with p > 0:
\* (int)(position + row_distance * (direction + plane * camera_x)).
FloorCell(cam, y, x) ==
    LET n   == SCREEN_HEIGHT * (5 + cam.z_position)
        d   == 10 * (y - SCREEN_HEIGHT \div 2)
        rd  == RayDirection(cam, x)
        den == PosScale * d * DirDen
    IN  << Trunc(cam.position[1] * d * DirDen + PosScale * n * rd[1], den),
           Trunc(cam.position[2] * d * DirDen + PosScale * n * rd[2], den) >>

\* One row of raycast_floor_ceiling. In the row with p = 0 floor_x and floor_y
\* are infinite or NaN and their conversion to int is undefined: `strays` are
\* the columns for which it yields a cell of the map, taken to be cell (0, 0).
raycast_floor_ceiling(b, map, count, tex, cam, y, strays) ==
    LET inf      == y = SCREEN_HEIGHT \div 2
        cell(x)  == IF inf THEN (IF x \in strays THEN <<0, 0>> ELSE <<-1, -1>>)
                    ELSE FloorCell(cam, y, x)
        inside(x) == InMap(cell(x)[1], cell(x)[2])
        floor(x) == inside(x) /\ ValidTexture(map.floor_textures[cell(x)[2]][cell(x)[1]],
                                          count)
        ceil(x)  == inside(x) /\ ValidTexture(map.ceiling_textures[cell(x)[2]][cell(x)[1]],
                                          count)
        floor_tex(x)   == map.floor_textures[cell(x)[2]][cell(x)[1]]
        ceiling_tex(x) == map.ceiling_textures[cell(x)[2]][cell(x)[1]]
        ceiling_y == SCREEN_HEIGHT - y - 1
        cols     == SelectSeq(Range(0, SCREEN_WIDTH - 1), LAMBDA x : floor(x))
    IN  [ z     |-> [x \in Columns |-> IF floor(x) THEN RowDistance(cam, y) ELSE b.z[x]],
          color |-> [i \in DOMAIN b.color |->
                        LET x == i % SCREEN_WIDTH
                            r == i \div SCREEN_WIDTH
                        IN  IF r = ceiling_y /\ ceil(x)
                            THEN <<"ceiling", texture_sample(tex[ceiling_tex(x)])>>
                            ELSE IF r = y /\ floor(x)
                            THEN <<"floor", texture_sample(tex[floor_tex(x)])>>
                            ELSE b.color[i]],
          log   |-> b.log \o [k \in 1 .. Len(cols) |->
                        Store("floor", 0, cols[k], y, RowDistance(cam, y))] ]

\* for (y = SCREEN_HEIGHT / 2; y < SCREEN_HEIGHT; y++) raycast_floor_ceiling
RECURSIVE FloorCeilingRows(_, _, _, _, _, _, _)
FloorCeilingRows(b, map, count, tex, cam, y, strays) ==
    IF y >= SCREEN_HEIGHT THEN b
    ELSE FloorCeilingRows(raycast_floor_ceiling(b, map, count, tex, cam, y, strays),
                          map, count, tex, cam, y + 1, strays)

\* The store as it would read with a min-z comparison.
WallDepthMin(old, perp) == IF RLt(perp, old) THEN perp ELSE old

\* z_buffer[x] = ray->perpendicular_distance, whatever z_buffer[x] held.
WallDepth(old, perp) == perp

\* line_height = (int)(SCREEN_HEIGHT / perpendicular_distance)
LineHeight(r) ==
    Trunc(SCREEN_HEIGHT * r.perpendicular_distance[2], r.perpendicular_distance[1])

\* (int)(pitch * SCREEN_HEIGHT) + (int)(bob_offset)
PitchShift(cam) == TruncQ(cam.pitch * SCREEN_HEIGHT, DoorScale) + cam.bob_offset

\* draw_start and draw_end after clamping to the screen.
DrawStart(cam, r) ==
    Max(0, -(LineHeight(r) \div 2) + SCREEN_HEIGHT \div 2 + PitchShift(cam))

\* draw_end as it would read without if (draw_end >= SCREEN_HEIGHT).
DrawEndUnclamped(cam, r) ==
    LineHeight(r) \div 2 + SCREEN_HEIGHT \div 2 + PitchShift(cam)

DrawEnd(cam, r) ==
    Min(SCREEN_HEIGHT - 1, LineHeight(r) \div 2 + SCREEN_HEIGHT \div 2 + PitchShift(cam))

\* The wall slice of column x: rows draw_start .. draw_end - 1 of the colour
\* buffer, then the store into z_buffer[x]. With an invalid texture nothing
\* is stored. pitch is fixed point (DoorScale per 1.0), bob_offset is in
\* whole pixels.
render_textured_wall(b, count, tex, cam, x, r) ==
    LET perp        == r.perpendicular_distance
        draw_start  == DrawStart(cam, r)
        draw_end    == DrawEnd(cam, r)
    IN  IF ~ValidTexture(r.texture_id, count) THEN b
        ELSE [ z     |-> [b.z EXCEPT ![x] = WallDepth(b.z[x], perp)],
               color |-> [i \in DOMAIN b.color |->
                             IF i % SCREEN_WIDTH = x
                                /\ i \div SCREEN_WIDTH >= draw_start
                                /\ i \div SCREEN_WIDTH < draw_end
                             THEN <<"wall", Shade(texture_sample(tex[r.texture_id]),
                                                  perp, r.side)>>
                             ELSE b.color[i]],
               log   |-> Append(b.log, Store("wall", 0, x, 0, perp)) ]

\* for (x = 0; x < SCREEN_WIDTH; x++): raycast_dda, then render_textured_wall
\* if ray.distance < MAX_RENDER_DISTANCE.
RECURSIVE WallColumns(_, _, _, _, _, _)
WallColumns(b, map, count, tex, cam, x) ==
    IF x >= SCREEN_WIDTH THEN b
    ELSE LET r == raycast_dda(map, cam, x)
         IN  WallColumns(IF RLt(r.distance, RenderDistance)
                         THEN render_textured_wall(b, count, tex, cam, x, r)
                         ELSE b,
                         map, count, tex, cam, x + 1)

\* (sprites[j].position - camera_pos) squared, in PosScale units squared.
SquaredDistanceFromOrigin(s, camera_pos) ==
    s.position[1] * s.position[1] + s.position[2] * s.position[2]

SquaredDistance(s, camera_pos) ==
    (s.position[1] - camera_pos[1]) * (s.position[1] - camera_pos[1])
    + (s.position[2] - camera_pos[2]) * (s.position[2] - camera_pos[2])

\* The inner loop of the bubble sort, j = from .. last, on a 1-based sequence.
RECURSIVE BubbleInner(_, _, _, _)
BubbleInner(s, camera_pos, j, last) ==
    IF j > last THEN s
    ELSE BubbleInner(
             IF SquaredDistance(s[j], camera_pos) < SquaredDistance(s[j + 1], camera_pos)
             THEN [s EXCEPT ![j] = s[j + 1], ![j + 1] = s[j]]
             ELSE s,
             camera_pos, j + 1, last)

\* The outer loop, i = 0 .. count - 2: the inner loop covers j < count - i - 1.
RECURSIVE BubbleOuter(_, _, _)
BubbleOuter(s, camera_pos, i) ==
    IF i >= Len(s) - 1 THEN s
    ELSE BubbleOuter(BubbleInner(s, camera_pos, 1, Len(s) - i - 1), camera_pos, i + 1)

sprite_sort_by_distance(s, camera_pos) == BubbleOuter(s, camera_pos, 0)

\* plane.x * direction.y - direction.x * plane.y, times DirScale squared.
Det(cam) == cam.plane[1] * cam.direction[2] - cam.direction[1] * cam.plane[2]

\* transform / inv_det, times PosScale * DirScale, of a world position.
TransformNum(cam, pos) ==
    LET sx == pos[1] - cam.position[1]
        sy == pos[2] - cam.position[2]
    IN  << cam.direction[2] * sx - cam.direction[1] * sy,
           -cam.plane[2] * sx + cam.plane[1] * sy >>

\* transform.y, the depth in camera space.
TransformY(cam, pos) == Rat(TransformNum(cam, pos)[2] * DirScale, PosScale * Det(cam))

\* (int)((SCREEN_WIDTH / 2) * (1 + transform.x / transform.y))
ScreenX(cam, pos) ==
    LET t == TransformNum(cam, pos)
    IN  TruncQ((SCREEN_WIDTH \div 2) * (t[2] + t[1]), t[2])

\* The depth test as it would read without the z-buffer.
DepthTestNone(depth, z, x) == TRUE

\* transform.y < z_buffer[x]
DepthTest(depth, z, x) == RLt(depth, z[x])

\* The columns and rows render_sprites walks for a sprite, none when
\* transform.y <= 0.
SpriteSpan(cam, s) ==
    LET t == TransformNum(cam, s.position)
    IN  IF RLe(TransformY(cam, s.position), Zero) THEN [xs |-> <<>>, ys |-> <<>>]
        ELSE LET size == Abs(TruncQ(SCREEN_HEIGHT * PosScale * Det(cam), t[2] * DirScale))
                 sprite_height == size * s.scale[2]
                 sprite_width  == size * s.scale[1]
                 screen_x      == ScreenX(cam, s.position)
                 draw_start_y  == Max(0, -(sprite_height \div 2) + SCREEN_HEIGHT \div 2)
                 draw_end_y    == Min(SCREEN_HEIGHT - 1,
                                      sprite_height \div 2 + SCREEN_HEIGHT \div 2)
                 draw_start_x  == Max(0, -(sprite_width \div 2) + screen_x)
                 draw_end_x    == Min(SCREEN_WIDTH - 1, sprite_width \div 2 + screen_x)
             IN  [xs |-> Range(draw_start_x, draw_end_x - 1),
                  ys |-> Range(draw_start_y, draw_end_y - 1)]

\* The pixels a compositor stores for entity number i at depth `depth`, out
\* of the pixels `at` it walks: those whose column passes the depth test.
Composite(b, by, i, depth, at) ==
    LET hit == SelectSeq(at, LAMBDA p : DepthTest(depth, b.z, p[1]))
    IN  [ z     |-> b.z,
          color |-> [k \in DOMAIN b.color |->
                        IF \E n \in 1 .. Len(hit) : Pixel(hit[n][1], hit[n][2]) = k
                        THEN <<by, i>> ELSE b.color[k]],
          log   |-> b.log \o [n \in 1 .. Len(hit) |->
                        Store(by, i, hit[n][1], hit[n][2], depth)] ]

RECURSIVE render_sprites(_, _, _, _)
render_sprites(b, s, cam, i) ==
    IF i > Len(s) THEN b
    ELSE LET span == SpriteSpan(cam, s[i])
         IN  render_sprites(
                 Composite(b, "sprite", i, TransformY(cam, s[i].position),
                           Nested(span.xs, span.ys)),
                 s, cam, i + 1)

\* The pixels particle_render walks for a particle: the disc of radius size
\* around (screen_x, screen_y) that lies on the screen, none when
\* transform.y <= 0. position.z is in tenths, as z_position; size is 0.1.
ParticleSpan(cam, p) ==
    LET t == TransformNum(cam, p.position)
    IN  IF RLe(TransformY(cam, p.position), Zero) THEN <<>>
        ELSE LET den      == 10 * t[2] * DirScale
                 num      == SCREEN_HEIGHT * PosScale * Det(cam)
                 screen_x == ScreenX(cam, p.position)
                 screen_y == TruncQ((SCREEN_HEIGHT \div 2) * den
                                    - num * (p.position[3] - cam.z_position), den)
                 size     == TruncQ(num, den)
                 disc     == SelectSeq(Nested(Range(-size, size), Range(-size, size)),
                                 LAMBDA d : d[1] * d[1] + d[2] * d[2] <= size * size)
                 moved    == [k \in 1 .. Len(disc) |->
                                 <<screen_x + disc[k][2], screen_y + disc[k][1]>>]
             IN  SelectSeq(moved, LAMBDA q : q[1] >= 0 /\ q[1] < SCREEN_WIDTH
                                             /\ q[2] >= 0 /\ q[2] < SCREEN_HEIGHT)

RECURSIVE particle_render(_, _, _, _)
particle_render(b, ps, cam, i) ==
    IF i > Len(ps) THEN b
    ELSE particle_render(
             Composite(b, "particle", i, TransformY(cam, ps[i].position),
                       ParticleSpan(cam, ps[i])),
             ps, cam, i + 1)

---------------------------------------------------------------------------
(* engine_render (engine.c): the passes of a frame, one action each. pc is *)
(* the pass to run next, "return" once engine_render is through.           *)

\* The order as it would read with tone mapping ahead of chromatic aberration.
RECURSIVE PassAfterToneEarly(_, _)
PassAfterToneEarly(p, fx) ==
    CASE p = "clear" -> "floor_ceiling"
      [] p = "floor_ceiling" -> "walls"
      [] p = "walls" -> "sprite_sort"
      [] p = "sprite_sort" -> "sprites"
      [] p = "sprites" -> "particles"
      [] p = "particles" -> "lighting"
      [] p = "lighting" -> "shadows"
      [] p = "shadows" -> "fog"
      [] p = "fog" -> IF fx.bloom_enabled THEN "bloom"
                      ELSE PassAfterToneEarly("bloom", fx)
      [] p = "bloom" -> IF fx.motion_blur_enabled THEN "motion_blur"
                        ELSE PassAfterToneEarly("motion_blur", fx)
      [] p = "motion_blur" -> "tone_mapping"
      [] p = "tone_mapping" -> IF fx.chromatic_aberration THEN "chromatic_aberration"
                               ELSE PassAfterToneEarly("chromatic_aberration", fx)
      [] p = "chromatic_aberration" -> IF fx.vignette THEN "vignette"
                                       ELSE PassAfterToneEarly("vignette", fx)
      [] p = "vignette" -> IF fx.fxaa_enabled THEN "fxaa" ELSE "return"
      [] OTHER -> "return"

\* The pass engine_render runs after pass p, from the order of its calls and
\* the post_fx flags it tests on the way.
RECURSIVE PassAfter(_, _)
PassAfter(p, fx) ==
    CASE p = "clear" -> "floor_ceiling"
      [] p = "floor_ceiling" -> "walls"
      [] p = "walls" -> "sprite_sort"
      [] p = "sprite_sort" -> "sprites"
      [] p = "sprites" -> "particles"
      [] p = "particles" -> "lighting"
      [] p = "lighting" -> "shadows"
      [] p = "shadows" -> "fog"
      [] p = "fog" -> IF fx.bloom_enabled THEN "bloom" ELSE PassAfter("bloom", fx)
      [] p = "bloom" -> IF fx.motion_blur_enabled THEN "motion_blur"
                        ELSE PassAfter("motion_blur", fx)
      [] p = "motion_blur" -> IF fx.chromatic_aberration THEN "chromatic_aberration"
                              ELSE PassAfter("chromatic_aberration", fx)
      [] p = "chromatic_aberration" -> "tone_mapping"
      [] p = "tone_mapping" -> IF fx.vignette THEN "vignette"
                               ELSE PassAfter("vignette", fx)
      [] p = "vignette" -> IF fx.fxaa_enabled THEN "fxaa" ELSE "return"
      [] OTHER -> "return"

\* A pass has run: it is noted and the next one is picked.
Done(p) ==
    /\ passes' = Append(passes, p)
    /\ pc' = PassAfter(p, post_fx)

Buffers == [z |-> z_buffer, color |-> color_buffer, log |-> writes]

SetBuffers(b) ==
    /\ z_buffer' = b.z
    /\ color_buffer' = b.color
    /\ writes' = b.log

\* memset of the colour buffer, z_buffer[i] = MAX_RENDER_DISTANCE.
ClearBuffers ==
    /\ pc = "clear"
    /\ z_buffer' = ClearZ
    /\ color_buffer' = ClearColor
    /\ writes' = <<>>
    /\ passes' = <<"clear">>
    /\ pc' = PassAfter("clear", post_fx)
    /\ UNCHANGED <<subsystems, world, texture_count, textures, camera, sprites, particles, post_fx,
                   ray, call>>

FloorCeiling ==
    /\ pc = "floor_ceiling"
    /\ \E strays \in SUBSET Columns :
          SetBuffers(FloorCeilingRows(Buffers, world, texture_count, textures, camera,
                                      SCREEN_HEIGHT \div 2, strays))
    /\ Done("floor_ceiling")
    /\ UNCHANGED <<subsystems, world, texture_count, textures, camera, sprites, particles, post_fx,
                   ray, call>>

Walls ==
    /\ pc = "walls"
    /\ SetBuffers(WallColumns(Buffers, world, texture_count, textures, camera, 0))
    /\ Done("walls")
    /\ UNCHANGED <<subsystems, world, texture_count, textures, camera, sprites, particles, post_fx,
                   ray, call>>

SortSprites ==
    /\ pc = "sprite_sort"
    /\ sprites' = sprite_sort_by_distance(sprites, camera.position)
    /\ call' = [op |-> "sprite_sort_by_distance", before |-> sprites,
                camera_pos |-> camera.position]
    /\ Done("sprite_sort")
    /\ UNCHANGED <<subsystems, world, texture_count, textures, camera, particles, z_buffer,
                   color_buffer, post_fx, writes, ray>>

RenderSprites ==
    /\ pc = "sprites"
    /\ SetBuffers(render_sprites(Buffers, sprites, camera, 1))
    /\ Done("sprites")
    /\ UNCHANGED <<subsystems, world, texture_count, textures, camera, sprites, particles, post_fx,
                   ray, call>>

RenderParticles ==
    /\ pc = "particles"
    /\ SetBuffers(particle_render(Buffers, particles, camera, 1))
    /\ Done("particles")
    /\ UNCHANGED <<subsystems, world, texture_count, textures, camera, sprites, particles, post_fx,
                   ray, call>>

\* A pass over the whole colour buffer: it rewrites colour values and leaves
\* the z-buffer and the feature each pixel shows as they are.
FullScreenPass(p) ==
    /\ pc = p
    /\ Done(p)
    /\ UNCHANGED <<subsystems, world, texture_count, textures, camera, sprites, particles, z_buffer,
                   color_buffer, post_fx, writes, ray, call>>

ApplyLighting == FullScreenPass("lighting")

ApplyShadows == FullScreenPass("shadows")

ApplyFog == FullScreenPass("fog")

Bloom == FullScreenPass("bloom")

MotionBlur == FullScreenPass("motion_blur")

ChromaticAberration == FullScreenPass("chromatic_aberration")

ToneMapping == FullScreenPass("tone_mapping")

Vignette == FullScreenPass("vignette")

Fxaa == FullScreenPass("fxaa")

NextRender ==
    \/ ClearBuffers \/ FloorCeiling \/ Walls \/ SortSprites \/ RenderSprites
    \/ RenderParticles \/ ApplyLighting \/ ApplyShadows \/ ApplyFog \/ Bloom
    \/ MotionBlur \/ ChromaticAberration \/ ToneMapping \/ Vignette \/ Fxaa

---------------------------------------------------------------------------
(* SpecRender: one call of engine_render on a scene.                       *)

MAX_SPRITES == 3

Sprite(pos) ==
    [position |-> pos, scale |-> <<1, 1>>, animation_frame |-> 0, animation_speed |-> 0]

Particle(pos, z) == [position |-> <<pos[1], pos[2], z>>]

\* Places for sprites and particles in front of, beside and behind a camera
\* that stands in column 1 of the map.
EntityPositions ==
    { <<PosScale, 2 * PosScale + Half>>,
      <<2 * PosScale, 2 * PosScale + Half>>,
      <<2 * PosScale + Half, 3 * PosScale>>,
      <<4 * PosScale, 2 * PosScale + Half>>,
      <<5 * PosScale + Half, PosScale + Half>> }

SeqsUpTo(S, n) == UNION {[1 .. k -> S] : k \in 0 .. n}

\* What the buffers hold before the frame: the last frame's values.
StaleZ == [x \in Columns |-> Zero]

StaleColor == [i \in 0 .. SCREEN_WIDTH * SCREEN_HEIGHT - 1 |-> <<"stale">>]

FxConfigs ==
    [ bloom_enabled : BOOLEAN, motion_blur_enabled : BOOLEAN,
      chromatic_aberration : BOOLEAN, vignette : BOOLEAN, fxaa_enabled : BOOLEAN ]

Pillar == CHOOSE l \in Layouts : l.solid = {<<4, 2>>}

Plain == CHOOSE l \in Layouts : l.solid = {} /\ l.open = {}

\* Standing (0.5) or crouching (0.3), in tenths.
EyeHeights == {5, 3}

InitFrame ==
    /\ z_buffer = StaleZ
    /\ color_buffer = StaleColor
    /\ pc = "clear"
    /\ passes = <<>>
    /\ writes = <<>>
    /\ ray = NoRay
    /\ call = NoCall

\* Worlds and cameras, nothing in them.
InitViews ==
    /\ \/ \E l \in Layouts : world = MakeWorld(l.solid, l.open, <<>>, 0)
       \/ world = MakeWorld({}, {}, <<Door(3, 2, DoorScale \div 2 + 1, FALSE)>>, 0)
    /\ \E px \in CamXs, z \in EyeHeights,
          a \in {<<DirScale, 0>>, <<-DirScale, 0>>, <<0, DirScale>>, <<Diag, Diag>>} :
          /\ CameraFree(world, <<px, 2 * PosScale + Half>>)
          /\ camera = [Camera(<<px, 2 * PosScale + Half>>, a) EXCEPT !.z_position = z]
    /\ texture_count = 4
    /\ textures = Loaded(4)
    /\ InitSubsystems
    /\ sprites = <<>>
    /\ particles = <<>>
    /\ post_fx = InitFx

\* Sprites and particles around a pillar.
InitEntities ==
    /\ world = MakeWorld(Pillar.solid, Pillar.open, <<>>, 0)
    /\ camera = Camera(<<PosScale + Half, 2 * PosScale + Half>>, <<-DirScale, 0>>)
    /\ texture_count = 4
    /\ textures = Loaded(4)
    /\ InitSubsystems
    /\ \E s \in SeqsUpTo(EntityPositions, 2) :
          sprites = [k \in DOMAIN s |-> Sprite(s[k])]
    /\ \E p \in { <<>>,
                  <<Particle(<<2 * PosScale, 2 * PosScale + Half>>, 5)>>,
                  <<Particle(<<PosScale, 2 * PosScale + Half>>, 5),
                    Particle(<<4 * PosScale, 3 * PosScale>>, 8)>> } :
          particles = p
    /\ post_fx = InitFx

\* Every combination of the post_fx flags, with and without textures.
InitFlags ==
    /\ world = MakeWorld(Plain.solid, Plain.open, <<>>, 0)
    /\ camera = Camera(<<PosScale + Half, 2 * PosScale + Half>>, <<-DirScale, 0>>)
    /\ texture_count \in {0, 4}
    /\ textures = Loaded(texture_count)
    /\ InitSubsystems
    /\ sprites = <<Sprite(<<2 * PosScale, 2 * PosScale + Half>>)>>
    /\ particles = <<>>
    /\ post_fx \in FxConfigs

InitRender == InitFrame /\ (InitViews \/ InitEntities \/ InitFlags)

SpecRender == InitRender /\ [][NextRender]_vars

---------------------------------------------------------------------------
(* SpecSort: sprite_sort_by_distance on any array of up to MAX_SPRITES     *)
(* sprites, seen from any camera position.                                 *)

InitSort ==
    /\ world = MakeWorld({}, {}, <<>>, 0)
    /\ \E px \in CamXs, py \in CamYs :
          camera = Camera(<<px, py>>, <<DirScale, 0>>)
    /\ \E s \in SeqsUpTo(EntityPositions, MAX_SPRITES) :
          sprites = [k \in DOMAIN s |-> Sprite(s[k])]
    /\ texture_count = 4
    /\ textures = Loaded(4)
    /\ InitSubsystems
    /\ particles = <<>>
    /\ z_buffer = ClearZ
    /\ color_buffer = ClearColor
    /\ post_fx = InitFx
    /\ pc = "sprite_sort"
    /\ passes = <<>>
    /\ writes = <<>>
    /\ ray = NoRay
    /\ call = NoCall

NextSort == SortSprites

SpecSort == InitSort /\ [][NextSort]_vars

---------------------------------------------------------------------------
(* Properties of the frame, under SpecRender, and of the sort, under       *)
(* SpecSort.                                                               *)

PassOrder ==
    << "clear", "floor_ceiling", "walls", "sprite_sort", "sprites", "particles",
       "lighting", "shadows", "fog", "bloom", "motion_blur",
       "chromatic_aberration", "tone_mapping", "vignette", "fxaa" >>

InRender == pc = "return" \/ \E k \in 1 .. Len(PassOrder) : PassOrder[k] = pc

\* C1: engine_render runs its passes in the order clear, floor/ceiling, walls,
\* sprite sort, sprites, particles, lighting, shadows, fog, bloom, motion
\* blur, chromatic aberration, tone mapping, vignette, FXAA; the five
\* conditional passes run exactly when their post_fx flag is set, and the
\* passes that run keep that order for every combination of the flags.
C1_PassOrder ==
    InRender =>
        LET runs(p) == CASE p = "bloom" -> post_fx.bloom_enabled
                         [] p = "motion_blur" -> post_fx.motion_blur_enabled
                         [] p = "chromatic_aberration" -> post_fx.chromatic_aberration
                         [] p = "vignette" -> post_fx.vignette
                         [] p = "fxaa" -> post_fx.fxaa_enabled
                         [] OTHER -> TRUE
            expected == SelectSeq(PassOrder, LAMBDA p : runs(p))
        IN  /\ Len(passes) <= Len(expected)
            /\ \A k \in 1 .. Len(passes) : passes[k] = expected[k]
            /\ pc = "return" => passes = expected
            /\ (pc # "return" /\ passes # <<>>) => expected[Len(passes) + 1] = pc

\* A frame is through with bloom and FXAA off and motion blur and chromatic
\* aberration on.
C1_Witness ==
    /\ pc = "return"
    /\ ~post_fx.bloom_enabled /\ post_fx.motion_blur_enabled
    /\ post_fx.chromatic_aberration /\ post_fx.vignette /\ ~post_fx.fxaa_enabled
    /\ passes = << "clear", "floor_ceiling", "walls", "sprite_sort", "sprites",
                   "particles", "lighting", "shadows", "fog", "motion_blur",
                   "chromatic_aberration", "tone_mapping", "vignette" >>

\* The sprite or particle a store or a pixel belongs to.
Entity(by, i) == IF by = "sprite" THEN sprites[i] ELSE particles[i]

\* render_sprites or particle_render has just run.
Composited ==
    pc \in {"particles", "lighting"} /\ Len(passes) >= 5 /\ passes[5] = "sprites"

\* C5: a pixel of column x is stored for a sprite or a particle only if its
\* depth transform.y satisfies 0 < transform.y < z_buffer[x]; so is every
\* pixel of the colour buffer that shows one.
C5_DepthTested ==
    Composited =>
        /\ \A k \in 1 .. Len(writes) :
              writes[k].by \in {"sprite", "particle"} =>
                  LET depth == TransformY(camera, Entity(writes[k].by, writes[k].i).position)
                  IN  RLt(Zero, depth) /\ RLt(depth, z_buffer[writes[k].x])
        /\ \A n \in DOMAIN color_buffer :
              color_buffer[n][1] \in {"sprite", "particle"} =>
                  LET depth == TransformY(camera,
                                   Entity(color_buffer[n][1], color_buffer[n][2]).position)
                  IN  RLt(Zero, depth) /\ RLt(depth, z_buffer[n % SCREEN_WIDTH])

\* A sprite has been drawn in one of its columns and kept out of another by
\* the z-buffer, a second sprite behind the camera has drawn nothing, and a
\* particle has been drawn.
C5_Witness ==
    /\ pc = "lighting"
    /\ \E i \in 1 .. Len(sprites) :
          LET depth == TransformY(camera, sprites[i].position)
              xs    == SpriteSpan(camera, sprites[i]).xs
          IN  /\ \E k \in 1 .. Len(writes) : writes[k].by = "sprite" /\ writes[k].i = i
              /\ \E n \in 1 .. Len(xs) :
                    /\ ~RLt(depth, z_buffer[xs[n]])
                    /\ \A k \in 1 .. Len(writes) :
                          ~(writes[k].by = "sprite" /\ writes[k].i = i
                            /\ writes[k].x = xs[n])
    /\ \E j \in 1 .. Len(sprites) :
          /\ RLe(TransformY(camera, sprites[j].position), Zero)
          /\ \A k \in 1 .. Len(writes) : ~(writes[k].by = "sprite" /\ writes[k].i = j)
    /\ \E k \in 1 .. Len(writes) : writes[k].by = "particle"

Count(s, e) == Cardinality({k \in 1 .. Len(s) : s[k] = e})

\* C6: after sprite_sort_by_distance the array is a permutation of what it
\* was and is ordered farthest first by the squared x/y distance from the
\* camera position.
C6_SortedFarthestFirst ==
    (pc = "sprites" /\ call.op = "sprite_sort_by_distance") =>
        LET far(s) == (s.position[1] - call.camera_pos[1]) * (s.position[1] - call.camera_pos[1])
                      + (s.position[2] - call.camera_pos[2]) * (s.position[2] - call.camera_pos[2])
        IN  /\ Len(sprites) = Len(call.before)
            /\ \A k \in 1 .. Len(sprites) :
                  Count(sprites, sprites[k]) = Count(call.before, sprites[k])
            /\ \A i, j \in 1 .. Len(sprites) :
                  i < j => far(sprites[i]) >= far(sprites[j])

\* Three sprites came nearest first, in the order of their distance from the
\* origin, and have been turned around.
C6_Witness ==
    /\ pc = "sprites" /\ call.op = "sprite_sort_by_distance"
    /\ Len(call.before) = 3
    /\ \A i \in 1 .. 2 :
          /\ SquaredDistance(call.before[i], call.camera_pos)
                < SquaredDistance(call.before[i + 1], call.camera_pos)
          /\ SquaredDistanceFromOrigin(call.before[i], call.camera_pos)
                > SquaredDistanceFromOrigin(call.before[i + 1], call.camera_pos)
    /\ sprites = <<call.before[3], call.before[2], call.before[1]>>

\* engine_render has just run its wall pass; the z-buffer is not written again
\* in the frame.
AfterWalls == pc = "sprite_sort" /\ passes = <<"clear", "floor_ceiling", "walls">>

\* The stores into z_buffer[x] of this frame, as indices into writes.
ZStores(x) ==
    {k \in 1 .. Len(writes) : writes[k].by \in {"floor", "wall"} /\ writes[k].x = x}

\* C7 as claimed: after the floor/ceiling and wall passes z_buffer[x] is the
\* smallest depth among the floor rows and the wall that wrote column x.
C7_MinimumDepth ==
    AfterWalls =>
        \A x \in Columns :
            ZStores(x) # {} =>
                /\ \E k \in ZStores(x) : z_buffer[x] = writes[k].depth
                /\ \A k \in ZStores(x) : RLe(z_buffer[x], writes[k].depth)

\* C7 as the code has it: after the floor/ceiling and wall passes z_buffer[x]
\* is the perpendicular distance of the wall drawn in column x if one was
\* drawn, whatever the floor rows had stored; else the depth of the last
\* floor row that wrote column x, which is the smallest of the floor rows'
\* depths; else MAX_RENDER_DISTANCE.
C7_LastWriterDepth ==
    AfterWalls =>
        \A x \in Columns :
            LET r      == raycast_dda(world, camera, x)
                drawn  == RLt(r.distance, RenderDistance)
                          /\ ValidTexture(r.texture_id, texture_count)
                floors == {k \in ZStores(x) : writes[k].by = "floor"}
            IN  IF drawn THEN z_buffer[x] = r.perpendicular_distance
                ELSE IF floors # {}
                THEN /\ z_buffer[x] = writes[CHOOSE k \in floors :
                                                \A m \in floors : m <= k].depth
                     /\ \A k \in floors : RLe(z_buffer[x], writes[k].depth)
                ELSE z_buffer[x] = RenderDistance

\* A floor row stored a depth in a column and the wall drawn there, farther
\* away, replaced it.
C7_Witness ==
    /\ AfterWalls
    /\ \E x \in Columns :
          \E f, w \in ZStores(x) :
              /\ writes[f].by = "floor" /\ writes[w].by = "wall"
              /\ IsFinite(writes[f].depth)
              /\ RLt(writes[f].depth, writes[w].depth)
              /\ z_buffer[x] = writes[w].depth

---------------------------------------------------------------------------
(* SpecTexture: the floor, ceiling and wall passes of engine_render over    *)
(* maps whose texture ids are in range, out of range, or name a texture     *)
(* without pixel data.                                                      *)

InitTexture ==
    /\ InitFrame
    /\ \E l \in Layouts, t \in {-1, 0, 1, MAX_TEXTURES} :
          world = MakeWorld(l.solid, l.open, <<>>, t)
    /\ \E px \in CamXs, a \in {<<DirScale, 0>>, <<0, DirScale>>} :
          /\ CameraFree(world, <<px, 2 * PosScale + Half>>)
          /\ camera = Camera(<<px, 2 * PosScale + Half>>, a)
    /\ texture_count \in {0, 1, MAX_TEXTURES}
    /\ \E missing \in SUBSET {0} : textures = Unloaded(texture_count, missing)
    /\ sprites = <<>>
    /\ particles = <<>>
    /\ post_fx = InitFx
    /\ InitSubsystems

NextTexture == ClearBuffers \/ FloorCeiling \/ Walls

SpecTexture == InitTexture /\ [][NextTexture]_vars

\* The id names no texture, or a texture without pixel data.
MissingTexture(id) ==
    ~ValidTexture(id, texture_count) \/ textures[id].pixels = NoPixels

\* The rows render_textured_wall colours in column x for ray r.
WallRows(cam, r) == DrawStart(cam, r) .. DrawEnd(cam, r) - 1

\* C11: when a wall refers to a missing or invalid texture id (negative,
\* >= texture_count, or a texture with no pixel data) the pixels of its slice
\* are still drawn, in magenta (255, 0, 255).
C11_MissingWallTextureDrawnMagenta ==
    AfterWalls =>
        \A x \in Columns :
            LET r == raycast_dda(world, camera, x)
            IN  (RLt(r.distance, RenderDistance) /\ MissingTexture(r.texture_id)) =>
                    \A y \in WallRows(camera, r) :
                        color_buffer[Pixel(x, y)] = <<"wall", Magenta>>

---------------------------------------------------------------------------
(* The bounded collections: particles, scripts, the script function         *)
(* registry and the audio sources.  Times are in ticks of a tenth of a      *)
(* second, as delta_time is; a particle's x and y are in PosScale units, its *)
(* z in tenths, its velocity in those units per tick.                       *)

\* Capacities, scaled down from engine.h (2048, 64, 32) and from the
\* function_registry[256] of scripting.c.
MAX_PARTICLES == 3
MAX_SCRIPTS == 2
REGISTRY_SIZE == 2
MAX_AUDIO_SOURCES == 2

\* The test as it would read with > for >=.
IsFullGt(count, capacity) == count > capacity

\* count >= capacity, the test every add starts with.
IsFull(count, capacity) == count >= capacity

\* particle_emit: dropped when the array is full, else stored in slot
\* particle_count with size 0.1, gravity_scale 1.0, texture_id -1. The colour
\* is kept as its alpha, in tenths.
particle_emit(ps, position, velocity, alpha, lifetime) ==
    IF IsFull(Len(ps), MAX_PARTICLES) THEN ps
    ELSE Append(ps, [ position |-> position, velocity |-> velocity,
                      alpha |-> alpha, lifetime |-> lifetime, size |-> 1,
                      gravity_scale |-> 1, texture_id |-> -1 ])

\* script_load: dropped when the array is full, else an active script with
\* no properties whose on_trigger is builtin_spawn_particle.
script_load(ss, filename) ==
    IF IsFull(Len(ss), MAX_SCRIPTS) THEN ss
    ELSE Append(ss, [ name |-> filename, active |-> TRUE, property_count |-> 0,
                      update |-> "NULL", on_collision |-> "NULL",
                      on_trigger |-> "builtin_spawn_particle" ])

\* script_register_function: dropped when the registry is full.
script_register_function(reg, name, func) ==
    IF IsFull(Len(reg), REGISTRY_SIZE) THEN reg
    ELSE Append(reg, [name |-> name, function |-> func])

\* The slot builtin_play_sound takes, set up; playing is what the zeroed slot
\* holds until audio_play sets it.
NewSource(position) ==
    [ position |-> position, volume |-> 10, pitch |-> 1, max_distance |-> 20,
      rolloff_factor |-> 1, looping |-> FALSE, playing |-> FALSE,
      positional |-> TRUE, audio_buffer_id |-> 0, playback_position |-> 0 ]

\* A store of the main thread into field `field` of audio source i, and
\* whether the thread held the audio device lock.
SourceStore(by, i, field) ==
    [by |-> by, i |-> i, field |-> field, locked |-> audio.lock = "main"]

\* What the four collections hold, for the record of a call.
Collections ==
    [ particles |-> particles, scripts |-> scripts,
      function_registry |-> function_registry, audio_sources |-> audio_sources ]

CollectionsFrame ==
    UNCHANGED <<world, texture_count, textures, camera, sprites, z_buffer,
                color_buffer, post_fx, passes, ray, thread_pool, workers, lights,
                app, engine, steps>>

ParticleEmit ==
    /\ pc = "idle"
    /\ \E lifetime \in {2} :
          particles' = particle_emit(particles,
                                     <<camera.position[1], camera.position[2], 5>>,
                                     <<0, 0, 5>>, 10, lifetime)
    /\ call' = [op |-> "particle_emit", before |-> Collections]
    /\ writes' = <<>>
    /\ CollectionsFrame
    /\ UNCHANGED <<pc, scripts, function_registry, audio_sources, audio>>

ScriptLoad ==
    /\ pc = "idle"
    /\ \E filename \in {"trigger.script", "door.script"} :
          scripts' = script_load(scripts, filename)
    /\ call' = [op |-> "script_load", before |-> Collections]
    /\ writes' = <<>>
    /\ CollectionsFrame
    /\ UNCHANGED <<pc, particles, function_registry, audio_sources, audio>>

ScriptRegisterFunction ==
    /\ pc = "idle"
    /\ \E name \in {"play_sound"} :
          function_registry' = script_register_function(function_registry, name, name)
    /\ call' = [op |-> "script_register_function", before |-> Collections]
    /\ writes' = <<>>
    /\ CollectionsFrame
    /\ UNCHANGED <<pc, particles, scripts, audio_sources, audio>>

\* builtin_play_sound up to its call of audio_play: the bad-argument and
\* full-array returns, else the slot is taken and set up, with no lock held.
PlaySound ==
    /\ pc = "idle"
    /\ \E arg_ok \in BOOLEAN :
          IF ~arg_ok \/ IsFull(Len(audio_sources), MAX_AUDIO_SOURCES)
          THEN /\ call' = [op |-> "play_sound", before |-> Collections, source |-> 0]
               /\ writes' = <<>>
               /\ UNCHANGED <<pc, audio_sources>>
          ELSE /\ audio_sources' = Append(audio_sources,
                                          NewSource(<<camera.position[1],
                                                      camera.position[2], 5>>))
               /\ call' = [op |-> "play_sound", before |-> Collections,
                           source |-> Len(audio_sources) + 1]
               /\ writes' = <<SourceStore("play_sound", Len(audio_sources) + 1,
                                          "playback_position")>>
               /\ pc' = "audio_play"
    /\ CollectionsFrame
    /\ UNCHANGED <<particles, scripts, function_registry, audio>>

\* audio_play(source): if (audio_device == 0) return; SDL_LockAudioDevice,
\* which waits while the callback runs.
AudioPlayLock ==
    /\ pc = "audio_play"
    /\ IF audio.device = 0
       THEN pc' = "idle" /\ UNCHANGED audio
       ELSE /\ audio.lock = "free"
            /\ audio' = [audio EXCEPT !.lock = "main"]
            /\ pc' = "audio_play_locked"
    /\ writes' = <<>>
    /\ CollectionsFrame
    /\ UNCHANGED <<call, particles, scripts, function_registry, audio_sources>>

\* playing = true; playback_position = 0; SDL_UnlockAudioDevice.
AudioPlayStore ==
    /\ pc = "audio_play_locked"
    /\ audio_sources' = [audio_sources EXCEPT ![call.source].playing = TRUE,
                                              ![call.source].playback_position = 0]
    /\ writes' = << SourceStore("audio_play", call.source, "playing"),
                    SourceStore("audio_play", call.source, "playback_position") >>
    /\ audio' = [audio EXCEPT !.lock = "free"]
    /\ pc' = "idle"
    /\ CollectionsFrame
    /\ UNCHANGED <<call, particles, scripts, function_registry>>

\* SpecCollections: the four adds called in any order, any number of times,
\* with the audio device open or not.
InitCollections ==
    /\ world = MakeWorld({}, {}, <<>>, 0)
    /\ camera = Camera(<<PosScale + Half, 2 * PosScale + Half>>, <<DirScale, 0>>)
    /\ texture_count = 4
    /\ textures = Loaded(4)
    /\ sprites = <<>>
    /\ particles = <<>>
    /\ z_buffer = ClearZ
    /\ color_buffer = ClearColor
    /\ post_fx = InitFx
    /\ passes = <<>>
    /\ writes = <<>>
    /\ ray = NoRay
    /\ call = NoCall
    /\ pc = "idle"
    /\ \E device \in {0, 2} : audio = [device |-> device, lock |-> "free", cursor |-> 0]
    /\ scripts = <<>>
    /\ function_registry = <<>>
    /\ audio_sources = <<>>
    /\ thread_pool = [use_multithreading |-> FALSE, pool |-> ZeroedPool]
    /\ workers = NoWorkers
    /\ lights = <<>>
    /\ InitLoop

NextCollections ==
    \/ ParticleEmit \/ ScriptLoad \/ ScriptRegisterFunction
    \/ PlaySound \/ AudioPlayLock \/ AudioPlayStore

SpecCollections == InitCollections /\ [][NextCollections]_vars

\* C12: after any sequence of particle_emit, script_load,
\* script_register_function and play_sound calls each collection holds at
\* most its capacity, and an add tried on a full collection left the count
\* and every entry of the collection as they were.
C12_CollectionsBounded ==
    /\ Len(particles) <= MAX_PARTICLES
    /\ Len(scripts) <= MAX_SCRIPTS
    /\ Len(function_registry) <= REGISTRY_SIZE
    /\ Len(audio_sources) <= MAX_AUDIO_SOURCES
    /\ (call.op = "particle_emit" /\ Len(call.before.particles) = MAX_PARTICLES)
          => particles = call.before.particles
    /\ (call.op = "script_load" /\ Len(call.before.scripts) = MAX_SCRIPTS)
          => scripts = call.before.scripts
    /\ (call.op = "script_register_function"
        /\ Len(call.before.function_registry) = REGISTRY_SIZE)
          => function_registry = call.before.function_registry
    /\ (call.op = "play_sound" /\ pc = "idle" /\ writes = <<>>
        /\ Len(call.before.audio_sources) = MAX_AUDIO_SOURCES)
          => audio_sources = call.before.audio_sources

\* Every collection is full and a play_sound was just dropped.
C12_Witness ==
    /\ call.op = "play_sound"
    /\ Len(call.before.audio_sources) = MAX_AUDIO_SOURCES
    /\ Len(particles) = MAX_PARTICLES
    /\ Len(scripts) = MAX_SCRIPTS
    /\ Len(function_registry) = REGISTRY_SIZE
    /\ audio_sources = call.before.audio_sources

---------------------------------------------------------------------------
(* SpecParticles: one call of particle_update on any small particle array.  *)
(* A velocity is in thousandths of a position unit per tick.                *)

\* Where the loop would look next after a removal if i were not stepped back.
AfterRemovalSkip(i) == i + 1

\* After a removal: i-- and then the loop's i++, so slot i again, which now
\* holds the particle swapped in from the end.
AfterRemoval(i) == i

\* A particle that lives on: position += velocity * delta_time,
\* velocity.z += -9.81 * gravity_scale * delta_time, velocity *= 0.98, and
\* color.a = lifetime once lifetime < 1.0 (ten ticks).
Integrate(p, dt) ==
    LET v  == p.velocity
        vz == v[3] - 981 * p.gravity_scale * dt
    IN  [p EXCEPT !.position = << @[1] + TruncQ(v[1] * dt, 1000),
                                  @[2] + TruncQ(v[2] * dt, 1000),
                                  @[3] + TruncQ(v[3] * dt, 1000) >>,
                  !.velocity = << TruncQ(v[1] * 98, 100), TruncQ(v[2] * 98, 100),
                                  TruncQ(vz * 98, 100) >>,
                  !.alpha = IF p.lifetime < 10 THEN p.lifetime ELSE @]

\* The loop of particle_update from index i (0-based) on: the lifetime is
\* decremented in place; an expired particle is overwritten by the last one
\* and the count drops by one.
RECURSIVE ParticleLoop(_, _, _)
ParticleLoop(ps, i, dt) ==
    IF i >= Len(ps) THEN ps
    ELSE LET p == [ps[i + 1] EXCEPT !.lifetime = @ - dt]
         IN  IF p.lifetime <= 0
             THEN ParticleLoop(SubSeq([ps EXCEPT ![i + 1] =
                                          IF i + 1 = Len(ps) THEN p ELSE ps[Len(ps)]],
                                      1, Len(ps) - 1),
                               AfterRemoval(i), dt)
             ELSE ParticleLoop([ps EXCEPT ![i + 1] = Integrate(p, dt)], i + 1, dt)

particle_update(ps, delta_time) == ParticleLoop(ps, 0, delta_time)

\* A stored particle: as particle_emit leaves it, `serial` telling the
\* particles of the array apart.
StoredParticle(serial, lifetime) ==
    [ position |-> <<PosScale + Half, 2 * PosScale + Half, 5>>,
      velocity |-> <<0, 0, 5000>>, alpha |-> 10, lifetime |-> lifetime,
      size |-> 1, gravity_scale |-> 1, texture_id |-> -1, serial |-> serial ]

InitParticles ==
    /\ world = MakeWorld({}, {}, <<>>, 0)
    /\ camera = Camera(<<PosScale + Half, 2 * PosScale + Half>>, <<DirScale, 0>>)
    /\ texture_count = 4
    /\ textures = Loaded(4)
    /\ InitSubsystems
    /\ sprites = <<>>
    /\ z_buffer = ClearZ
    /\ color_buffer = ClearColor
    /\ post_fx = InitFx
    /\ passes = <<>>
    /\ writes = <<>>
    /\ ray = NoRay
    /\ call = NoCall
    /\ pc = "particle_update"
    /\ \E lifetimes \in SeqsUpTo(0 .. MaxDelta, MAX_PARTICLES) :
          particles = [k \in 1 .. Len(lifetimes) |-> StoredParticle(k, lifetimes[k])]

ParticleUpdate ==
    /\ pc = "particle_update"
    /\ \E delta_time \in DeltaTimes :
          /\ particles' = particle_update(particles, delta_time)
          /\ call' = [op |-> "particle_update", before |-> particles,
                      delta_time |-> delta_time]
    /\ pc' = "idle"
    /\ UNCHANGED <<subsystems, world, texture_count, textures, camera, sprites,
                   z_buffer, color_buffer, post_fx, passes, writes, ray>>

NextParticles == ParticleUpdate

SpecParticles == InitParticles /\ [][NextParticles]_vars

\* The indices of call.before whose particle expires in the call.
Expired ==
    {j \in 1 .. Len(call.before) : call.before[j].lifetime - call.delta_time <= 0}

\* C13: after particle_update(delta_time) no remaining particle has
\* lifetime <= 0, the count has dropped by the number of particles that
\* expired in the call, and the survivors are exactly the stored particles
\* that did not expire, each once and each with its lifetime decremented by
\* delta_time once, whatever slot it ended in.
C13_SwapRemove ==
    (pc = "idle" /\ call.op = "particle_update") =>
        /\ \A k \in 1 .. Len(particles) : particles[k].lifetime > 0
        /\ Len(particles) = Len(call.before) - Cardinality(Expired)
        /\ \A j \in (1 .. Len(call.before)) \ Expired :
              /\ Cardinality({k \in 1 .. Len(particles) :
                                 particles[k].serial = call.before[j].serial}) = 1
              /\ \A k \in 1 .. Len(particles) :
                    particles[k].serial = call.before[j].serial =>
                        particles[k].lifetime = call.before[j].lifetime - call.delta_time
        /\ \A k \in 1 .. Len(particles) :
              \E j \in (1 .. Len(call.before)) \ Expired :
                  particles[k].serial = call.before[j].serial

\* The first particle expired and the last one, which outlived the call, was
\* swapped into its slot.
C13_Witness ==
    /\ pc = "idle" /\ call.op = "particle_update"
    /\ Len(call.before) >= 3
    /\ 1 \in Expired
    /\ Len(call.before) \notin Expired
    /\ Len(particles) >= 1
    /\ particles[1].serial = call.before[Len(call.before)].serial
    /\ call.delta_time > 0

---------------------------------------------------------------------------
(* SpecThreads: one call of threading_render_parallel and then              *)
(* threading_cleanup.  The main thread creates the workers one by one and   *)
(* joins them one by one; a worker renders a column per step.  The job and  *)
(* the thread of index i in the code have number i + 1 here.                *)

\* threading_init: memset, use_threading = true, job_count = MAX_THREADS.
threading_init(pool) ==
    [ZeroedPool EXCEPT !.use_threading = TRUE, !.job_count = MAX_THREADS]

\* columns_per_thread = SCREEN_WIDTH / pool->job_count
ColumnsPerThread(pool) == SCREEN_WIDTH \div pool.job_count

\* The start as it would read one column early.
StartColumnOverlap(pool, i) == Max(0, i * ColumnsPerThread(pool) - 1)

\* jobs[i].start_column = i * columns_per_thread
StartColumn(pool, i) == i * ColumnsPerThread(pool)

\* The end as it would read without the last job's remainder.
EndColumnEven(pool, i) == (i + 1) * ColumnsPerThread(pool)

\* jobs[i].end_column: SCREEN_WIDTH for the last job, else
\* (i + 1) * columns_per_thread.
EndColumn(pool, i) ==
    IF i = pool.job_count - 1 THEN SCREEN_WIDTH ELSE (i + 1) * ColumnsPerThread(pool)

\* The handle slot as it would be left without the reset.
AfterJoinKept(handle) == handle

\* free(thread_handles[i]); thread_handles[i] = NULL;
AfterJoin(handle) == 0

\* One column of the wall loop: raycast_dda, then render_textured_wall if
\* ray.distance < MAX_RENDER_DISTANCE.
WallColumn(b, map, count, tex, cam, x) ==
    LET r == raycast_dda(map, cam, x)
    IN  IF RLt(r.distance, RenderDistance)
        THEN render_textured_wall(b, count, tex, cam, x, r)
        ELSE b

ThreadsFrame ==
    UNCHANGED <<world, texture_count, textures, camera, sprites, particles,
                post_fx, passes, ray, scripts, function_registry, audio_sources,
                audio, lights, app, engine, steps>>

\* threading_render_parallel up to its first loop: the single-threaded
\* fallback, all of it, or columns_per_thread and on to the creation loop.
ParallelBegin ==
    /\ pc = "render_parallel"
    /\ IF ~thread_pool.use_multithreading \/ ~thread_pool.pool.use_threading
       THEN /\ SetBuffers(WallColumns(Buffers, world, texture_count, textures, camera, 0))
            /\ call' = [op |-> "threading_render_parallel", i |-> 0, threaded |-> FALSE,
                        before |-> [z |-> z_buffer, color |-> color_buffer]]
            /\ pc' = "idle"
       ELSE /\ call' = [op |-> "threading_render_parallel", i |-> 0, threaded |-> TRUE,
                        before |-> [z |-> z_buffer, color |-> color_buffer]]
            /\ pc' = "create"
            /\ UNCHANGED <<z_buffer, color_buffer, writes>>
    /\ ThreadsFrame
    /\ UNCHANGED <<thread_pool, workers>>

\* One turn of the creation loop: the job's range, completed = false, malloc
\* and pthread_create (taken to succeed; their results are not tested), and
\* the handle stored.
ParallelCreate ==
    /\ pc = "create"
    /\ LET i    == call.i
           pool == thread_pool.pool
       IN  /\ thread_pool' =
                 [thread_pool EXCEPT
                     !.pool.jobs[i + 1] = [start_column |-> StartColumn(pool, i),
                                           end_column |-> EndColumn(pool, i),
                                           completed |-> FALSE],
                     !.pool.thread_handles[i + 1] = i + 1]
           /\ workers' = [workers EXCEPT ![i + 1].state = "running",
                                         ![i + 1].x = StartColumn(pool, i)]
           /\ IF i + 1 < pool.job_count
              THEN call' = [call EXCEPT !.i = i + 1] /\ pc' = pc
              ELSE call' = [call EXCEPT !.i = 0] /\ pc' = "join"
    /\ ThreadsFrame
    /\ UNCHANGED <<z_buffer, color_buffer, writes>>

\* threading_render_job, one column x of its loop; the stores it logs carry
\* the worker's number.
WorkerColumn ==
    \E w \in 1 .. MAX_THREADS :
        /\ workers[w].state = "running"
        /\ workers[w].x < thread_pool.pool.jobs[w].end_column
        /\ LET b == WallColumn(Buffers, world, texture_count, textures, camera,
                               workers[w].x)
           IN  /\ z_buffer' = b.z
               /\ color_buffer' = b.color
               /\ writes' = [k \in 1 .. Len(b.log) |->
                                IF k <= Len(writes) THEN writes[k]
                                ELSE [b.log[k] EXCEPT !.i = w]]
        /\ workers' = [workers EXCEPT ![w].x = @ + 1]
        /\ ThreadsFrame
        /\ UNCHANGED <<pc, call, thread_pool>>

\* The loop is over: job->completed = true; return NULL.
WorkerExit ==
    \E w \in 1 .. MAX_THREADS :
        /\ workers[w].state = "running"
        /\ workers[w].x >= thread_pool.pool.jobs[w].end_column
        /\ thread_pool' = [thread_pool EXCEPT !.pool.jobs[w].completed = TRUE]
        /\ workers' = [workers EXCEPT ![w].state = "exited"]
        /\ ThreadsFrame
        /\ UNCHANGED <<pc, call, z_buffer, color_buffer, writes>>

\* One turn of the waiting loop: pthread_join returns once the thread has
\* exited; then free and the reset of the handle.
ParallelJoin ==
    /\ pc = "join"
    /\ LET i == call.i
           t == thread_pool.pool.thread_handles[i + 1]
       IN  /\ workers[t].state = "exited"
           /\ workers' = [workers EXCEPT ![t].joins = @ + 1, ![t].frees = @ + 1]
           /\ thread_pool' = [thread_pool EXCEPT !.pool.thread_handles[i + 1] =
                                                    AfterJoin(t)]
           /\ IF i + 1 < thread_pool.pool.job_count
              THEN call' = [call EXCEPT !.i = i + 1] /\ pc' = pc
              ELSE call' = [call EXCEPT !.i = 0] /\ pc' = "idle"
    /\ ThreadsFrame
    /\ UNCHANGED <<z_buffer, color_buffer, writes>>

\* threading_cleanup: every handle that is not NULL is joined, freed and
\* reset.
ThreadingCleanup ==
    /\ pc = "idle"
    /\ LET held == {i \in 1 .. thread_pool.pool.job_count :
                       thread_pool.pool.thread_handles[i] # 0}
           of(i) == thread_pool.pool.thread_handles[i]
       IN  /\ workers' = [t \in 1 .. MAX_THREADS |->
                            IF \E i \in held : of(i) = t
                            THEN [workers[t] EXCEPT !.joins = @ + 1, !.frees = @ + 1]
                            ELSE workers[t]]
           /\ thread_pool' = [thread_pool EXCEPT !.pool.thread_handles =
                                 [i \in 1 .. MAX_THREADS |->
                                     IF i \in held THEN 0 ELSE @[i]]]
    /\ call' = [call EXCEPT !.op = "threading_cleanup"]
    /\ pc' = "cleaned"
    /\ ThreadsFrame
    /\ UNCHANGED <<z_buffer, color_buffer, writes>>

\* A scene with walls in sight, the buffers as the clear left them, the pool
\* initialised, Engine.use_multithreading set or not.
InitThreads ==
    /\ \E l \in {Plain, Pillar} : world = MakeWorld(l.solid, l.open, <<>>, 0)
    /\ \E px \in CamXs, a \in {<<DirScale, 0>>, <<Diag, Diag>>} :
          /\ CameraFree(world, <<px, 2 * PosScale + Half>>)
          /\ camera = Camera(<<px, 2 * PosScale + Half>>, a)
    /\ texture_count = 4
    /\ textures = Loaded(4)
    /\ sprites = <<>>
    /\ particles = <<>>
    /\ z_buffer = ClearZ
    /\ color_buffer = ClearColor
    /\ post_fx = InitFx
    /\ passes = <<>>
    /\ writes = <<>>
    /\ ray = NoRay
    /\ call = NoCall
    /\ pc = "render_parallel"
    /\ scripts = <<>>
    /\ function_registry = <<>>
    /\ audio_sources = <<>>
    /\ audio = [device |-> 0, lock |-> "free", cursor |-> 0]
    /\ \E m \in BOOLEAN :
          thread_pool = [use_multithreading |-> m, pool |-> threading_init(ZeroedPool)]
    /\ workers = NoWorkers
    /\ lights = <<>>
    /\ InitLoop

NextThreads ==
    \/ ParallelBegin \/ ParallelCreate \/ WorkerColumn \/ WorkerExit
    \/ ParallelJoin \/ ThreadingCleanup

SpecThreads == InitThreads /\ [][NextThreads]_vars

\* The columns of job number j.
JobColumns(j) ==
    {x \in Columns : /\ thread_pool.pool.jobs[j].start_column <= x
                     /\ x < thread_pool.pool.jobs[j].end_column}

\* The jobs created so far (all of them from the waiting loop on).
Created ==
    IF pc = "create" THEN 1 .. call.i
    ELSE IF pc \in {"join", "idle", "cleaned"} /\ call.threaded
         THEN 1 .. thread_pool.pool.job_count
         ELSE {}

\* Once every job is created, the ranges are pairwise disjoint and cover
\* the screen, each job but the last taking columns_per_thread columns; and
\* no column was stored into by two workers or by a worker outside its range.
RangesPartition ==
    /\ \A i, j \in Created : i # j => JobColumns(i) \cap JobColumns(j) = {}
    /\ \A j \in Created :
          /\ thread_pool.pool.jobs[j].start_column <= thread_pool.pool.jobs[j].end_column
          /\ j < thread_pool.pool.job_count =>
                Cardinality(JobColumns(j)) = ColumnsPerThread(thread_pool.pool)
    /\ (pc \in {"join", "idle", "cleaned"} /\ call.op # "none" /\ call.threaded)
          => UNION {JobColumns(j) : j \in Created} = Columns
    /\ \A k \in DOMAIN writes :
          writes[k].i \in Created => writes[k].x \in JobColumns(writes[k].i)

\* A step of worker w changes no cell outside the columns of w's range.
WorkerStoresOwn ==
    \A w \in 1 .. MAX_THREADS :
        workers'[w].x # workers[w].x /\ workers[w].state = "running" =>
            /\ \A x \in Columns : z_buffer'[x] # z_buffer[x] => x \in JobColumns(w)
            /\ \A n \in DOMAIN color_buffer :
                  color_buffer'[n] # color_buffer[n] =>
                      (n % SCREEN_WIDTH) \in JobColumns(w)

\* C14: in column-parallel mode the job ranges [start_column, end_column)
\* are pairwise disjoint and cover [0, SCREEN_WIDTH), the last job taking the
\* remainder, and a worker stores only into z_buffer[x] and pixels of columns
\* x of its own range, so no two workers store into the same cell.
C14_DisjointColumnRanges == [](RangesPartition) /\ [][WorkerStoresOwn]_vars

\* Two workers have each drawn a wall slice while a third is still running,
\* the last job holding more columns than the others.
C14_Witness ==
    /\ pc = "join"
    /\ Cardinality(JobColumns(MAX_THREADS)) > ColumnsPerThread(thread_pool.pool)
    /\ \E k1, k2 \in DOMAIN writes :
          writes[k1].i # writes[k2].i /\ writes[k1].by = "wall" /\ writes[k2].by = "wall"
    /\ \E w \in 1 .. MAX_THREADS : workers[w].state = "running"

\* The call of threading_render_parallel took the threaded path and has
\* returned.
ParallelReturned == pc \in {"idle", "cleaned"} /\ call.op # "none" /\ call.threaded

\* C15: threading_render_parallel returns only after every job it started
\* has finished (completed is true), with every created thread joined once
\* and its handle freed once and reset to NULL, so that threading_cleanup
\* afterwards joins and frees nothing a second time.
C15_FullBarrier ==
    /\ ParallelReturned =>
          \A j \in 1 .. thread_pool.pool.job_count :
              /\ thread_pool.pool.jobs[j].completed
              /\ workers[j].state = "exited"
              /\ workers[j].joins = 1
              /\ workers[j].frees = 1
              /\ thread_pool.pool.thread_handles[j] = 0
    /\ \A t \in 1 .. MAX_THREADS : workers[t].joins <= 1 /\ workers[t].frees <= 1

\* threading_cleanup has run after a threaded call in which the worker
\* created first was the last to finish.
C15_Witness ==
    /\ pc = "cleaned"
    /\ call.threaded
    /\ \A t \in 1 .. MAX_THREADS : workers[t].joins = 1
    /\ Len(writes) >= 2
    /\ writes[Len(writes)].i = 1

\* The buffers the single-threaded wall loop makes of the buffers the call
\* started from.
SingleThreaded ==
    WallColumns([z |-> call.before.z, color |-> call.before.color, log |-> <<>>],
                world, texture_count, textures, camera, 0)

\* C16: when threading_render_parallel returns, on the threaded path under
\* any interleaving of the workers as on its fallback path, the z-buffer and
\* the colour buffer are what the single-threaded column loop makes of the
\* same engine state.
C16_SameAsSingleThreaded ==
    (pc = "idle" /\ call.op = "threading_render_parallel") =>
        /\ z_buffer = SingleThreaded.z
        /\ color_buffer = SingleThreaded.color

\* A threaded call has returned in which a column was drawn before a column
\* to its left, and the columns do not all look alike.
C16_Witness ==
    /\ pc = "idle" /\ call.op = "threading_render_parallel" /\ call.threaded
    /\ \E k1, k2 \in DOMAIN writes : k1 < k2 /\ writes[k1].x > writes[k2].x
    /\ \E x1, x2 \in Columns : z_buffer[x1] # z_buffer[x2]
    /\ \E n \in DOMAIN color_buffer : color_buffer[n][1] = "wall"

---------------------------------------------------------------------------
(* SpecAudio: the main thread calling play_sound, audio_play and audio_stop *)
(* while SDL's audio thread runs audio_callback.  SDL holds the device lock *)
(* for the length of a callback; SDL_LockAudioDevice waits for it.  A       *)
(* callback mixes one sample, a sound is SampleCount samples long.          *)

SampleCount == 2

\* audio_play(&engine->audio_sources[i]) and audio_stop(...), called from
\* outside the engine on a source that exists.
AudioPlayCall ==
    /\ pc = "idle"
    /\ \E i \in 1 .. Len(audio_sources) :
          call' = [op |-> "audio_play", before |-> Collections, source |-> i]
    /\ pc' = "audio_play"
    /\ writes' = <<>>
    /\ CollectionsFrame
    /\ UNCHANGED <<particles, scripts, function_registry, audio_sources, audio>>

AudioStopCall ==
    /\ pc = "idle"
    /\ \E i \in 1 .. Len(audio_sources) :
          call' = [op |-> "audio_stop", before |-> Collections, source |-> i]
    /\ pc' = "audio_stop"
    /\ writes' = <<>>
    /\ CollectionsFrame
    /\ UNCHANGED <<particles, scripts, function_registry, audio_sources, audio>>

\* audio_stop: if (audio_device == 0) return; SDL_LockAudioDevice.
AudioStopLock ==
    /\ pc = "audio_stop"
    /\ IF audio.device = 0
       THEN pc' = "idle" /\ UNCHANGED audio
       ELSE /\ audio.lock = "free"
            /\ audio' = [audio EXCEPT !.lock = "main"]
            /\ pc' = "audio_stop_locked"
    /\ writes' = <<>>
    /\ CollectionsFrame
    /\ UNCHANGED <<call, particles, scripts, function_registry, audio_sources>>

\* playing = false; playback_position = 0; SDL_UnlockAudioDevice.
AudioStopStore ==
    /\ pc = "audio_stop_locked"
    /\ audio_sources' = [audio_sources EXCEPT ![call.source].playing = FALSE,
                                              ![call.source].playback_position = 0]
    /\ writes' = << SourceStore("audio_stop", call.source, "playing"),
                    SourceStore("audio_stop", call.source, "playback_position") >>
    /\ audio' = [audio EXCEPT !.lock = "free"]
    /\ pc' = "idle"
    /\ CollectionsFrame
    /\ UNCHANGED <<call, particles, scripts, function_registry>>

\* SDL takes the device lock and enters audio_callback.
CallbackBegin ==
    /\ audio.device # 0
    /\ audio.lock = "free"
    /\ audio' = [audio EXCEPT !.lock = "callback", !.cursor = 0]
    /\ CollectionsFrame
    /\ UNCHANGED <<pc, call, writes, particles, scripts, function_registry,
                   audio_sources>>

\* One turn of the loop over the sources, i < engine->audio_source_count
\* read afresh: a source that plays moves on by its pitch and, at the end of
\* its buffer, starts over or stops.
CallbackMix ==
    /\ audio.lock = "callback"
    /\ audio.cursor < Len(audio_sources)
    /\ LET i   == audio.cursor + 1
           src == audio_sources[i]
           pos == IF src.playback_position < SampleCount
                  THEN src.playback_position + src.pitch
                  ELSE src.playback_position
       IN  audio_sources' =
              IF ~src.playing \/ src.audio_buffer_id < 0 THEN audio_sources
              ELSE [audio_sources EXCEPT ![i] =
                      IF pos >= SampleCount
                      THEN IF src.looping
                           THEN [src EXCEPT !.playback_position = 0]
                           ELSE [src EXCEPT !.playback_position = pos,
                                            !.playing = FALSE]
                      ELSE [src EXCEPT !.playback_position = pos]]
    /\ audio' = [audio EXCEPT !.cursor = @ + 1]
    /\ CollectionsFrame
    /\ UNCHANGED <<pc, call, writes, particles, scripts, function_registry>>

\* The loop is over; SDL releases the lock.
CallbackEnd ==
    /\ audio.lock = "callback"
    /\ audio.cursor >= Len(audio_sources)
    /\ audio' = [audio EXCEPT !.lock = "free"]
    /\ CollectionsFrame
    /\ UNCHANGED <<pc, call, writes, particles, scripts, function_registry,
                   audio_sources>>

\* The device open or not, and no source or one looping source set up before.
InitAudio ==
    /\ world = MakeWorld({}, {}, <<>>, 0)
    /\ camera = Camera(<<PosScale + Half, 2 * PosScale + Half>>, <<DirScale, 0>>)
    /\ texture_count = 4
    /\ textures = Loaded(4)
    /\ sprites = <<>>
    /\ particles = <<>>
    /\ z_buffer = ClearZ
    /\ color_buffer = ClearColor
    /\ post_fx = InitFx
    /\ passes = <<>>
    /\ writes = <<>>
    /\ ray = NoRay
    /\ call = NoCall
    /\ pc = "idle"
    /\ \E device \in {0, 2} : audio = [device |-> device, lock |-> "free", cursor |-> 0]
    /\ scripts = <<>>
    /\ function_registry = <<>>
    /\ \/ audio_sources = <<>>
       \/ audio_sources = <<[NewSource(<<PosScale, PosScale, 5>>) EXCEPT !.looping = TRUE]>>
    /\ thread_pool = [use_multithreading |-> FALSE, pool |-> ZeroedPool]
    /\ workers = NoWorkers
    /\ lights = <<>>
    /\ InitLoop

NextAudio ==
    \/ PlaySound \/ AudioPlayCall \/ AudioPlayLock \/ AudioPlayStore
    \/ AudioStopCall \/ AudioStopLock \/ AudioStopStore
    \/ CallbackBegin \/ CallbackMix \/ CallbackEnd

SpecAudio == InitAudio /\ [][NextAudio]_vars

\* C17: every store the main thread makes into an audio source's playing
\* flag or playback_position while the callback may run (the device is open),
\* in audio_play, audio_stop and the set-up of play_sound, is made with the
\* audio device lock held.
C17_SourceStoresUnderLock ==
    audio.device # 0 =>
        \A k \in DOMAIN writes :
            writes[k].field \in {"playing", "playback_position"} => writes[k].locked

---------------------------------------------------------------------------
(* SpecLighting: apply_lighting on a colour buffer of coloured pixels.  A   *)
(* light's colour channels and its intensity are in tenths.  (Under         *)
(* SpecRender the full-screen passes are only noted, not applied.)          *)

\* The colour of a pixel <<feature, colour>> and the pixel recoloured.
Rgb(pixel) == pixel[2]

Recolour(pixel, c) == <<pixel[1], c>>

\* (uint8_t)v of a float v >= 0 that is whole: v if it fits. The conversion
\* of a value above 255 is undefined; builds yield v mod 256 (conversion to
\* int, low byte kept) or 255 (a saturating conversion): `mode` says which.
Narrow(v, mode) ==
    IF v <= 255 THEN v ELSE IF mode = "wrap" THEN v % 256 ELSE 255

NarrowModes == {"wrap", "saturate"}

\* ColorF final_light = {0.2f, 0.2f, 0.25f, 1.0f}, in hundredths.
Ambient == <<20, 20, 25>>

\* The sum over the lights l with attenuation > 0.01 of
\* color[ch] * intensity * dd^2, where attenuation is
\* intensity / (1 + depth^2 * 0.01) and depth = dn / dd.
RECURSIVE LightSum(_, _, _, _, _)
LightSum(ls, k, ch, dn, dd) ==
    IF k > Len(ls) THEN 0
    ELSE LET l == ls[k]
             rest == LightSum(ls, k + 1, ch, dn, dd)
         IN  IF l.intensity * 1000 * dd * dd > 100 * dd * dd + dn * dn
             THEN l.color[ch] * l.intensity * dd * dd + rest
             ELSE rest

\* final_light channel ch at depth: ambient plus the lights, then
\* if (final_light > 2.0f) final_light = 2.0f. A rational <<n, d>>.
FinalLight(ls, ch, depth) ==
    LET D == 100 * depth[2] * depth[2] + depth[1] * depth[1]
        n == Ambient[ch] * D + 100 * LightSum(ls, 1, ch, depth[1], depth[2])
        d == 100 * D
    IN  IF n > 2 * d THEN <<2, 1>> ELSE <<n, d>>

\* pixel.c = (uint8_t)(pixel.c * final_light.c); the test pixel.c > 255
\* that follows is on a uint8_t and never true.
LitChannel(c, light, mode) == Narrow(TruncQ(c * light[1], light[2]), mode)

\* apply_lighting: pixels of a column with depth >= MAX_RENDER_DISTANCE are
\* left alone.
apply_lighting(color, z, ls, mode) ==
    [n \in DOMAIN color |->
        LET depth == z[n % SCREEN_WIDTH]
            c     == Rgb(color[n])
        IN  IF RLe(RenderDistance, depth) THEN color[n]
            ELSE Recolour(color[n],
                          << LitChannel(c[1], FinalLight(ls, 1, depth), mode),
                             LitChannel(c[2], FinalLight(ls, 2, depth), mode),
                             LitChannel(c[3], FinalLight(ls, 3, depth), mode) >>)]

\* The light main adds (colour (1, 0.3, 0.1), intensity 8, flickering 0.2),
\* a dim white one and one switched off; intensity and flickering in tenths.
MainLight == [color |-> <<10, 3, 1>>, intensity |-> 80, flickering |-> 2]

DimLight == [color |-> <<10, 10, 10>>, intensity |-> 1, flickering |-> 0]

OffLight == [color |-> <<10, 10, 10>>, intensity |-> 0, flickering |-> 0]

\* A colour buffer of one colour, drawn as walls.
Painted(c) == [i \in 0 .. SCREEN_WIDTH * SCREEN_HEIGHT - 1 |-> <<"wall", c>>]

InitLighting ==
    /\ world = MakeWorld({}, {}, <<>>, 0)
    /\ camera = Camera(<<PosScale + Half, 2 * PosScale + Half>>, <<DirScale, 0>>)
    /\ texture_count = 4
    /\ textures = Loaded(4)
    /\ sprites = <<>>
    /\ particles = <<>>
    /\ z_buffer \in [Columns -> {<<1, 1>>, <<5, 2>>, RenderDistance}]
    /\ \E c \in {<<200, 100, 0>>, <<100, 127, 128>>, Magenta} : color_buffer = Painted(c)
    /\ post_fx = InitFx
    /\ passes = <<"clear", "floor_ceiling", "walls", "sprite_sort", "sprites", "particles">>
    /\ writes = <<>>
    /\ ray = NoRay
    /\ call = NoCall
    /\ pc = "lighting"
    /\ scripts = <<>>
    /\ function_registry = <<>>
    /\ audio_sources = <<>>
    /\ audio = [device |-> 0, lock |-> "free", cursor |-> 0]
    /\ thread_pool = [use_multithreading |-> FALSE, pool |-> ZeroedPool]
    /\ workers = NoWorkers
    /\ lights \in {<<>>, <<MainLight>>, <<DimLight, OffLight>>}
    /\ InitLoop

\* The lighting pass of engine_render, applied.
LightingPass ==
    /\ pc = "lighting"
    /\ \E mode \in NarrowModes :
          /\ color_buffer' = apply_lighting(color_buffer, z_buffer, lights, mode)
          /\ call' = [op |-> "apply_lighting", before |-> color_buffer, mode |-> mode]
    /\ Done("lighting")
    /\ UNCHANGED <<subsystems, world, texture_count, textures, camera, sprites,
                   particles, z_buffer, post_fx, writes, ray>>

NextLighting == LightingPass

SpecLighting == InitLighting /\ [][NextLighting]_vars

\* C18: in apply_lighting each light channel is at most 2.0 when used and
\* each lit pixel channel stored is min(255, floor(channel * light)): it never
\* wraps around modulo 256.
C18_LitChannelsClamped ==
    (pc = "shadows" /\ call.op = "apply_lighting") =>
        \A n \in DOMAIN color_buffer :
            LET depth == z_buffer[n % SCREEN_WIDTH]
            IN  RLt(depth, RenderDistance) =>
                    \A ch \in 1 .. 3 :
                        LET light == FinalLight(lights, ch, depth)
                        IN  /\ light[1] <= 2 * light[2]
                            /\ Rgb(color_buffer[n])[ch] =
                                  Min(255, TruncQ(Rgb(call.before[n])[ch] * light[1],
                                                  light[2]))

---------------------------------------------------------------------------
(* SpecBloom: post_process_bloom on a colour buffer of coloured pixels.     *)
(* bloom_threshold and bloom_intensity are rationals <<n, d>>.              *)

\* GAUSSIAN_KERNEL[0 .. 4], in ten-thousandths.
GAUSSIAN_KERNEL == <<2270, 1946, 1216, 541, 162>>

\* The test as it would read with >= for >.
IsBrightOrEqual(c, threshold) ==
    (c[1] + c[2] + c[3]) * threshold[2] >= threshold[1] * 3 * 255

\* brightness = (r + g + b) / (3 * 255); brightness > bloom_threshold
IsBright(c, threshold) ==
    (c[1] + c[2] + c[3]) * threshold[2] > threshold[1] * 3 * 255

RECURSIVE SumTaps(_, _)
SumTaps(taps, i) == IF i > 4 THEN 0 ELSE taps[i] + SumTaps(taps, i + 1)

\* The nine-tap weighted sum around index `at` of a line of `count` samples,
\* taps that fall outside skipped; in ten-thousandths.
Blur(sample(_), at, count) ==
    SumTaps([i \in -4 .. 4 |->
                IF at + i < 0 \/ at + i >= count THEN 0
                ELSE sample(at + i) * GAUSSIAN_KERNEL[Abs(i) + 1]], -4)

\* post_process_bloom: the bright pixels are copied to post_process_buffer,
\* the others zeroed; a horizontal blur of it goes to temp, narrowed to
\* uint8_t; the vertical blur of temp times bloom_intensity is added to the
\* pixel and the sum narrowed.
post_process_bloom(color, fx, mode) ==
    LET extracted == [n \in DOMAIN color |->
                         IF IsBright(Rgb(color[n]), fx.bloom_threshold)
                         THEN Rgb(color[n]) ELSE <<0, 0, 0>>]
        temp == [n \in DOMAIN color |->
                    LET y == n \div SCREEN_WIDTH
                        x == n % SCREEN_WIDTH
                        h(ch) == Blur(LAMBDA sx : extracted[y * SCREEN_WIDTH + sx][ch],
                                      x, SCREEN_WIDTH)
                    IN  << Narrow(TruncQ(h(1), 10000), mode),
                           Narrow(TruncQ(h(2), 10000), mode),
                           Narrow(TruncQ(h(3), 10000), mode) >>]
        in == fx.bloom_intensity[1]
        id == fx.bloom_intensity[2]
    IN  [n \in DOMAIN color |->
            LET y == n \div SCREEN_WIDTH
                x == n % SCREEN_WIDTH
                v(ch) == Blur(LAMBDA sy : temp[sy * SCREEN_WIDTH + x][ch],
                              y, SCREEN_HEIGHT)
                out(ch) == Narrow(TruncQ(Rgb(color[n])[ch] * 10000 * id + v(ch) * in,
                                         10000 * id), mode)
            IN  Recolour(color[n], <<out(1), out(2), out(3)>>)]

\* Painted(c) with the pixel at index `at` of colour `spot`.
Spotted(c, at, spot) == [Painted(c) EXCEPT ![at] = <<"wall", spot>>]

\* Greys at (204: luminance 0.8) and above the default threshold.
SpotColours == {<<204, 204, 204>>, <<255, 255, 255>>}

\* A corner, two pixels inside and the last pixel.
SpotPlaces ==
    {0, SCREEN_WIDTH + 1, 2 * SCREEN_WIDTH + 2, SCREEN_WIDTH * SCREEN_HEIGHT - 1}

InitBloom ==
    /\ world = MakeWorld({}, {}, <<>>, 0)
    /\ camera = Camera(<<PosScale + Half, 2 * PosScale + Half>>, <<DirScale, 0>>)
    /\ texture_count = 4
    /\ textures = Loaded(4)
    /\ sprites = <<>>
    /\ particles = <<>>
    /\ z_buffer = ClearZ
    /\ \E c \in {<<0, 0, 0>>, <<100, 127, 128>>, Magenta} :
          \/ color_buffer = Painted(c)
          \/ \E at \in SpotPlaces, spot \in SpotColours :
                color_buffer = Spotted(c, at, spot)
    /\ \E t \in {<<8, 10>>, <<1, 2>>} :
          post_fx = [ bloom_enabled |-> TRUE, motion_blur_enabled |-> FALSE,
                      chromatic_aberration |-> FALSE, vignette |-> TRUE,
                      fxaa_enabled |-> TRUE, bloom_threshold |-> t,
                      bloom_intensity |-> <<3, 10>> ]
    /\ passes = << "clear", "floor_ceiling", "walls", "sprite_sort", "sprites",
                   "particles", "lighting", "shadows", "fog" >>
    /\ writes = <<>>
    /\ ray = NoRay
    /\ call = NoCall
    /\ pc = "bloom"
    /\ InitSubsystems

\* The bloom pass of engine_render, applied.
BloomPass ==
    /\ pc = "bloom"
    /\ \E mode \in NarrowModes :
          /\ color_buffer' = post_process_bloom(color_buffer, post_fx, mode)
          /\ call' = [op |-> "post_process_bloom", before |-> color_buffer, mode |-> mode]
    /\ Done("bloom")
    /\ UNCHANGED <<subsystems, world, texture_count, textures, camera, sprites,
                   particles, z_buffer, post_fx, writes, ray>>

NextBloom == BloomPass

SpecBloom == InitBloom /\ [][NextBloom]_vars

\* No pixel of the buffer the call started from was above the threshold.
NothingBright ==
    \A n \in DOMAIN call.before :
        LET c == Rgb(call.before[n])
        IN  (c[1] + c[2] + c[3]) * post_fx.bloom_threshold[2]
                <= post_fx.bloom_threshold[1] * 3 * 255

\* C19: if no pixel of the colour buffer has luminance (r+g+b)/(3*255) above
\* post_fx.bloom_threshold, post_process_bloom leaves every pixel of the
\* colour buffer as it was.
C19_BloomLeavesDarkBufferAlone ==
    (call.op = "post_process_bloom" /\ NothingBright) => color_buffer = call.before

\* Bloom has run on a buffer that is not black and has a pixel exactly at
\* the threshold, none above it.
C19_Witness ==
    /\ call.op = "post_process_bloom"
    /\ NothingBright
    /\ \E n \in DOMAIN call.before :
          LET c == Rgb(call.before[n])
          IN  (c[1] + c[2] + c[3]) * post_fx.bloom_threshold[2]
                  = post_fx.bloom_threshold[1] * 3 * 255
    /\ \E n \in DOMAIN call.before : Rgb(call.before[n]) = Magenta
    /\ color_buffer = call.before

---------------------------------------------------------------------------
(* The simulation step: engine_update and what application_update does    *)
(* before it (physics.c, engine.c, main.c).  A velocity is fixed point,    *)
(* VelScale units to one position unit per tick of 0.1 s; a value stored   *)
(* in a float is cut to its fixed point grid toward zero.                  *)

PHYSICS_SUBSTEPS == 4

VelScale == 1000

\* body->radius, 0.25 cells, is PosScale / 4 position units: a squared
\* distance d2 in position units is below radius^2 when 16 * d2 < PosScale^2.
WithinRadius(d2) == 16 * d2 < PosScale * PosScale

\* closest_x: position.x brought into [x, x + 1].
Closest(p, x) ==
    IF p < x * PosScale THEN x * PosScale
    ELSE IF p > (x + 1) * PosScale THEN (x + 1) * PosScale
    ELSE p

\* The vector from the closest point of tile <<x, y>> to position.
ToCircle(position, x, y) ==
    <<position[1] - Closest(position[1], x), position[2] - Closest(position[2], y)>>

SquaredLength(v) == v[1] * v[1] + v[2] * v[2]

\* physics_check_collision with radius 0.25: a cell of the box around the
\* circle that is off the map or solid and nearer than the radius, or a door.
physics_check_collision(map, position) ==
    LET min_x == Trunc(4 * position[1] - PosScale, 4 * PosScale)
        max_x == Trunc(4 * position[1] + PosScale, 4 * PosScale)
        min_y == Trunc(4 * position[2] - PosScale, 4 * PosScale)
        max_y == Trunc(4 * position[2] + PosScale, 4 * PosScale)
    IN  \/ \E y \in min_y .. max_y, x \in min_x .. max_x :
              \/ ~InMap(x, y)
              \/ /\ map_get_tile(map, x, y) > 0
                 /\ WithinRadius(SquaredLength(ToCircle(position, x, y)))
        \/ \E i \in 1 .. Len(map.doors) : door_check_collision(map.doors[i], position)

\* sqrt(n) cut to an integer, for n below (250 * PosScale)^2: the square of
\* the radius in thousandths of a position unit.
Isqrt(n) == CHOOSE k \in 0 .. 250 * PosScale : k * k <= n /\ n < (k + 1) * (k + 1)

\* physics_resolve_collision with normal = to_circle / dist and
\* penetration = radius - dist, the distances in thousandths of a position
\* unit; bounce is 0.
physics_resolve_collision(body, to_circle) ==
    LET d2   == SquaredLength(to_circle)
        dist == Isqrt(d2 * 1000000)
        gap  == 250 * PosScale - dist
        dot  == body.velocity[1] * to_circle[1] + body.velocity[2] * to_circle[2]
        out  == <<body.position[1] + Trunc(to_circle[1] * gap, dist),
                  body.position[2] + Trunc(to_circle[2] * gap, dist)>>
    IN  [ position |-> out,
          velocity |-> IF dot < 0
                       THEN <<body.velocity[1] - Trunc(to_circle[1] * dot, d2),
                              body.velocity[2] - Trunc(to_circle[2] * dot, d2)>>
                       ELSE body.velocity ]

\* The loop over the nine tiles around <<tile_x, tile_y>>, from the k-th on
\* (dy outside, dx inside): a solid tile nearer than the radius, and farther
\* than 0.001, pushes the body out.
RECURSIVE ResolveTiles(_, _, _, _)
ResolveTiles(map, body, tile, k) ==
    IF k > 8 THEN body
    ELSE LET x  == tile[1] + (k % 3) - 1
             y  == tile[2] + (k \div 3) - 1
             to_circle == ToCircle(body.position, x, y)
             d2 == SquaredLength(to_circle)
         IN  IF InMap(x, y) /\ map_get_tile(map, x, y) > 0
                /\ WithinRadius(d2) /\ d2 * 1000000 > PosScale * PosScale
             THEN ResolveTiles(map, physics_resolve_collision(body, to_circle), tile, k + 1)
             ELSE ResolveTiles(map, body, tile, k + 1)

\* velocity * delta_time in position units, delta_time = <<n, d>> ticks.
Displacement(v, delta_time) == Trunc(v * delta_time[1], VelScale * delta_time[2])

\* physics_update as it would read without the last test: the move along
\* y is kept whether it collides or not.
physics_update_no_restore(map, body, delta_time) ==
    LET old == body.position
        v   == <<Trunc(85 * body.velocity[1], 100), Trunc(85 * body.velocity[2], 100)>>
        to  == <<old[1] + Displacement(v[1], delta_time),
                 old[2] + Displacement(v[2], delta_time)>>
        x_only == <<to[1], old[2]>>
        y_only == <<old[1], to[2]>>
        moved ==
            IF ~physics_check_collision(map, to)
            THEN [position |-> to, velocity |-> v]
            ELSE IF ~physics_check_collision(map, x_only)
            THEN [position |-> x_only, velocity |-> <<v[1], 0>>]
            ELSE [position |-> y_only, velocity |-> <<0, v[2]>>]
        tile == <<Trunc(moved.position[1], PosScale), Trunc(moved.position[2], PosScale)>>
    IN  ResolveTiles(map, moved, tile, 0)

\* physics_update: friction 0.85, the move, the moves along one axis tried
\* when it collides, then the push out of the tiles.
physics_update(map, body, delta_time) ==
    LET old == body.position
        v   == <<Trunc(85 * body.velocity[1], 100), Trunc(85 * body.velocity[2], 100)>>
        to  == <<old[1] + Displacement(v[1], delta_time),
                 old[2] + Displacement(v[2], delta_time)>>
        x_only == <<to[1], old[2]>>
        y_only == <<old[1], to[2]>>
        moved ==
            IF ~physics_check_collision(map, to)
            THEN [position |-> to, velocity |-> v]
            ELSE IF ~physics_check_collision(map, x_only)
            THEN [position |-> x_only, velocity |-> <<v[1], 0>>]
            ELSE IF ~physics_check_collision(map, y_only)
            THEN [position |-> y_only, velocity |-> <<0, v[2]>>]
            ELSE [position |-> old, velocity |-> <<0, 0>>]
        tile == <<Trunc(moved.position[1], PosScale), Trunc(moved.position[2], PosScale)>>
    IN  ResolveTiles(map, moved, tile, 0)

\* camera_move_forward(cam, MOVE_SPEED * delta_time) with MOVE_SPEED 5 cells
\* a second: velocity += direction * distance.
camera_move_forward(cam, delta_time) ==
    LET gain(k) == Trunc(cam.direction[k] * 5 * delta_time * PosScale * VelScale,
                         DirScale * 100)
    IN  [cam EXCEPT !.physics.velocity = <<@[1] + gain(1), @[2] + gain(2)>>]

\* camera_crouch
camera_crouch(cam, state) ==
    [cam EXCEPT !.crouching = state, !.z_position = IF state THEN 3 ELSE 5]

\* sinf at the phases 0.8, 1.6, ... 6.4, in thousandths.
SinTable == <<717, 999, 675, -58, -756, -996, -631, 116>>

\* sinf(bob_phase) * 5.0f in whole pixels, bob_phase in tenths of a radian
\* (a multiple of 8: the phase advances by delta_time * 8.0f).
BobSwing(bob_phase) ==
    IF bob_phase = 0 THEN 0
    ELSE Trunc(5 * SinTable[bob_phase \div 8], 1000)

\* camera_update_headbob; moving is speed > 0.01f.
camera_update_headbob(cam, delta_time, moving) ==
    IF moving
    THEN LET phase == cam.bob_phase + 8 * delta_time
         IN  [cam EXCEPT !.bob_phase = phase, !.bob_offset = BobSwing(phase)]
    ELSE [cam EXCEPT !.bob_offset = Trunc(9 * @, 10)]

\* vec2_length(velocity) > 0.01f, the velocity in cells a second.
\* One cell a second is PosScale * VelScale / 10 velocity units.
Moving(velocity) ==
    SquaredLength(velocity) > (PosScale * VelScale * PosScale * VelScale) \div 1000000

\* The E key of application_update: each door in the 3x3 cells around the
\* player's cell is opened when less than half open, closed otherwise.
ToggleDoors(doors, position) ==
    LET px == Trunc(position[1], PosScale)
        py == Trunc(position[2], PosScale)
    IN  [i \in DOMAIN doors |->
            IF Abs(doors[i].x - px) <= 1 /\ Abs(doors[i].y - py) <= 1
            THEN IF 2 * doors[i].open_amount < DoorScale
                 THEN door_open(doors[i]) ELSE door_close(doors[i])
            ELSE doors[i]]

\* sprite_animate: animation_speed in frames per tick.
sprite_animate(sprite, delta_time) ==
    IF sprite.animation_speed > 0
    THEN [sprite EXCEPT !.animation_frame = @ + sprite.animation_speed * delta_time]
    ELSE sprite

\* fast_sin (math.c), Bhaskara's approximation: x in hundredths of a radian,
\* x >= 0, the result in thousandths.
fast_sin(x) ==
    LET PI == 314
        r  == x % (2 * PI)
        Arc(t) == Trunc(16000 * t * (PI - t), 5 * PI * PI - 4 * t * (PI - t))
    IN  IF r < PI THEN Arc(r) ELSE -Arc(r - PI)

\* The flicker loop of engine_update: intensity *= 1 + flicker * flickering
\* with flicker = fast_sin(time_accumulator * 10 + i * 2); time_accumulator is
\* in ticks, intensity and flickering in tenths.
LightFlicker(ls, time_accumulator) ==
    [k \in DOMAIN ls |->
        IF ls[k].flickering > 0
        THEN LET flicker == fast_sin(100 * (time_accumulator + 2 * (k - 1)))
             IN  [ls[k] EXCEPT !.intensity =
                                   Trunc(@ * (10000 + flicker * ls[k].flickering), 10000)]
        ELSE ls[k]]

\* Particles emitted by one press of SPACE (100 in main.c).
BurstCount == 2

\* The SPACE key: particle_emit called n times, here with one velocity for
\* all of them.
RECURSIVE EmitBurst(_, _, _, _)
EmitBurst(ps, n, position, velocity) ==
    IF n = 0 THEN ps
    ELSE EmitBurst(particle_emit(ps, position, velocity, 10, 20), n - 1, position, velocity)

\* The order with the sprites animated ahead of the doors.
StepAfterSpritesFirst(p, i) ==
    CASE p = "handle_events" -> "application_update"
      [] p = "application_update" -> "engine_update"
      [] p = "engine_update" -> "physics"
      [] p = "physics" -> IF i + 1 < PHYSICS_SUBSTEPS THEN "physics" ELSE "camera"
      [] p = "camera" -> "update_sprites"
      [] p = "update_sprites" -> "update_doors"
      [] p = "update_doors" -> "update_particles"
      [] p = "update_particles" -> "update_lights"
      [] p = "update_lights" -> "clear"
      [] OTHER -> "main_loop"

\* What the main thread does after step p of an iteration of the main loop,
\* i the number of physics substeps made before it: application_handle_events,
\* application_update, the steps of engine_update inside it, then
\* application_render, whose engine_render starts at "clear", and back to
\* the top of the loop.
StepAfter(p, i) ==
    CASE p = "handle_events" -> "application_update"
      [] p = "application_update" -> "engine_update"
      [] p = "engine_update" -> "physics"
      [] p = "physics" -> IF i + 1 < PHYSICS_SUBSTEPS THEN "physics" ELSE "camera"
      [] p = "camera" -> "update_doors"
      [] p = "update_doors" -> "update_sprites"
      [] p = "update_sprites" -> "update_particles"
      [] p = "update_particles" -> "update_lights"
      [] p = "update_lights" -> "clear"
      [] OTHER -> "main_loop"

---------------------------------------------------------------------------
(* SpecLoop: the main loop of main.c, MaxFrames iterations of it: a step   *)
(* of application_update or engine_update, or a pass of engine_render,    *)
(* is a step of the specification.                                         *)

MaxFrames == 2

\* What an iteration finds: the time since the last one (capped at 0.1 s,
\* one tick), the keys held and the key pressed since.
Inputs ==
    { [delta_time |-> 1, keys |-> {}, event |-> "none"],
      [delta_time |-> 1, keys |-> {"E"}, event |-> "none"],
      [delta_time |-> 1, keys |-> {"W", "LCTRL"}, event |-> "space"],
      [delta_time |-> 0, keys |-> {}, event |-> "escape"] }

BurstVelocities == {<<0, 0, 5000>>, <<400, -400, 0>>}

\* engine_init's light and the one main adds.
DefaultLight == [color |-> <<10, 9, 7>>, intensity |-> 50, flickering |-> 0]

InitMainLoop ==
    /\ world = MakeWorld({}, {}, <<Door(3, 2, 0, FALSE)>>, 0)
    /\ camera = Camera(<<2 * PosScale + Half, 2 * PosScale + Half>>, <<-DirScale, 0>>)
    /\ texture_count = 4
    /\ textures = Loaded(4)
    /\ sprites = <<[Sprite(<<5 * PosScale, 2 * PosScale + Half>>) EXCEPT !.animation_speed = 1]>>
    /\ particles = <<>>
    /\ post_fx = InitFx
    /\ z_buffer = ClearZ
    /\ color_buffer = ClearColor
    /\ passes = <<>>
    /\ writes = <<>>
    /\ ray = NoRay
    /\ call = NoCall
    /\ pc = "main_loop"
    /\ scripts = <<>>
    /\ function_registry = <<>>
    /\ audio_sources = <<>>
    /\ audio = [device |-> 0, lock |-> "free", cursor |-> 0]
    /\ thread_pool = [use_multithreading |-> FALSE, pool |-> ZeroedPool]
    /\ workers = NoWorkers
    /\ lights = <<DefaultLight, MainLight>>
    /\ InitLoop

\* What no step of the simulation touches.
LoopFrame ==
    UNCHANGED <<texture_count, textures, z_buffer, color_buffer, post_fx, passes,
                writes, ray, scripts, function_registry, audio_sources, audio,
                thread_pool, workers>>

\* The top of the loop with running set, and application_handle_events:
\* ESC clears running, SPACE emits particles at the camera.
HandleEvents ==
    /\ pc = "main_loop"
    /\ app.running
    /\ engine.frame_count < MaxFrames
    /\ \E input \in Inputs, velocity \in BurstVelocities :
          /\ app' = [running |-> input.event # "escape", keys |-> input.keys,
                     delta_time |-> input.delta_time]
          /\ particles' =
                 IF input.event = "space"
                 THEN EmitBurst(particles, BurstCount,
                                <<camera.position[1], camera.position[2],
                                  camera.z_position>>, velocity)
                 ELSE particles
    /\ steps' = <<>>
    /\ pc' = StepAfter("handle_events", 0)
    /\ UNCHANGED <<world, camera, sprites, lights, engine, call>>
    /\ LoopFrame

\* The top of the loop with running cleared: the loop is left.
LeaveLoop ==
    /\ pc = "main_loop"
    /\ ~app.running
    /\ pc' = "exit"
    /\ UNCHANGED <<world, camera, sprites, particles, lights, app, engine, steps, call>>
    /\ LoopFrame

\* application_update up to its call of engine_update; the mouse is still.
ApplicationUpdate ==
    /\ pc = "application_update"
    /\ camera' = camera_crouch(IF "W" \in app.keys
                               THEN camera_move_forward(camera, app.delta_time)
                               ELSE camera,
                               "LCTRL" \in app.keys)
    /\ world' = IF "E" \in app.keys
                THEN [world EXCEPT !.doors = ToggleDoors(@, camera.position)]
                ELSE world
    /\ pc' = StepAfter("application_update", 0)
    /\ UNCHANGED <<sprites, particles, lights, app, engine, steps, call>>
    /\ LoopFrame

\* engine_update, its first three statements.
EngineUpdateBegin ==
    /\ pc = "engine_update"
    /\ engine' = [delta_time |-> app.delta_time,
                  frame_count |-> engine.frame_count + 1,
                  time_accumulator |-> engine.time_accumulator + app.delta_time]
    /\ call' = [op |-> "engine_update", i |-> 0]
    /\ pc' = StepAfter("engine_update", 0)
    /\ UNCHANGED <<world, camera, sprites, particles, lights, app, steps>>
    /\ LoopFrame

\* One physics_update of the substep loop.
PhysicsSubstep ==
    /\ pc = "physics"
    /\ camera' = [camera EXCEPT !.physics =
                     physics_update(world, @, <<engine.delta_time, PHYSICS_SUBSTEPS>>)]
    /\ call' = [call EXCEPT !.i = @ + 1]
    /\ steps' = Append(steps, "physics")
    /\ pc' = StepAfter("physics", call.i)
    /\ UNCHANGED <<world, sprites, particles, lights, app, engine>>
    /\ LoopFrame

\* camera.position = camera.physics.position, then camera_update_headbob.
CameraSync ==
    /\ pc = "camera"
    /\ camera' = camera_update_headbob(
                     [camera EXCEPT !.position = camera.physics.position],
                     engine.delta_time, Moving(camera.physics.velocity))
    /\ steps' = Append(steps, "camera")
    /\ pc' = StepAfter("camera", 0)
    /\ UNCHANGED <<world, sprites, particles, lights, app, engine, call>>
    /\ LoopFrame

UpdateDoors ==
    /\ pc = "update_doors"
    /\ world' = [world EXCEPT !.doors =
                    [i \in DOMAIN @ |-> door_update(@[i], engine.delta_time)]]
    /\ steps' = Append(steps, "doors")
    /\ pc' = StepAfter("update_doors", 0)
    /\ UNCHANGED <<camera, sprites, particles, lights, app, engine, call>>
    /\ LoopFrame

UpdateSprites ==
    /\ pc = "update_sprites"
    /\ sprites' = [i \in DOMAIN sprites |-> sprite_animate(sprites[i], engine.delta_time)]
    /\ steps' = Append(steps, "sprites")
    /\ pc' = StepAfter("update_sprites", 0)
    /\ UNCHANGED <<world, camera, particles, lights, app, engine, call>>
    /\ LoopFrame

UpdateParticles ==
    /\ pc = "update_particles"
    /\ particles' = particle_update(particles, engine.delta_time)
    /\ steps' = Append(steps, "particles")
    /\ pc' = StepAfter("update_particles", 0)
    /\ UNCHANGED <<world, camera, sprites, lights, app, engine, call>>
    /\ LoopFrame

\* The flicker loop; engine_update and application_update return and
\* application_render calls engine_render.
UpdateLights ==
    /\ pc = "update_lights"
    /\ lights' = LightFlicker(lights, engine.time_accumulator)
    /\ steps' = Append(steps, "lights")
    /\ pc' = StepAfter("update_lights", 0)
    /\ UNCHANGED <<world, camera, sprites, particles, app, engine, call>>
    /\ LoopFrame

\* application_render after engine_render: the colour buffer is copied to
\* the screen texture and presented; the frame limiter sleeps.
Present ==
    /\ pc = "return"
    /\ pc' = StepAfter("return", 0)
    /\ UNCHANGED <<world, camera, sprites, particles, lights, app, engine, steps, call>>
    /\ LoopFrame

\* No key toggles a post_fx flag here: the passes of engine_render are those
\* engine_init's flags select.
NextMainLoop ==
    \/ HandleEvents \/ LeaveLoop \/ ApplicationUpdate \/ EngineUpdateBegin
    \/ PhysicsSubstep \/ CameraSync \/ UpdateDoors \/ UpdateSprites
    \/ UpdateParticles \/ UpdateLights
    \/ ClearBuffers \/ FloorCeiling \/ Walls \/ SortSprites \/ RenderSprites
    \/ RenderParticles \/ ApplyLighting \/ ApplyShadows \/ ApplyFog \/ Bloom
    \/ ToneMapping \/ Vignette \/ Fxaa \/ Present

SpecLoop == InitMainLoop /\ [][NextMainLoop]_vars

---------------------------------------------------------------------------
(* Properties of the main loop, under SpecLoop.                            *)

\* The steps of one engine_update, in the order of its statements.
UpdateOrder ==
    [k \in 1 .. PHYSICS_SUBSTEPS |-> "physics"]
        \o <<"camera", "doors", "sprites", "particles", "lights">>

\* The state the simulation step works on.
simulation == <<world, camera, particles, lights, engine>>

\* C20: in every iteration of the main loop engine_update runs its steps in
\* the order physics substeps, doors, sprites, particles, and has run all of
\* them before engine_render of that frame starts; no step of engine_update
\* is made, and nothing of the simulation state changes, while engine_render
\* is about to start, runs or has just returned (InRender), and no column
\* worker thread runs at any time.
C20_UpdateBeforeRender ==
    /\ [](/\ Len(steps) <= Len(UpdateOrder)
          /\ steps = SubSeq(UpdateOrder, 1, Len(steps))
          /\ InRender => steps = UpdateOrder
          /\ \A w \in DOMAIN workers : workers[w].state = "none")
    /\ [][InRender => /\ steps' = steps
                      /\ UNCHANGED simulation]_vars

\* The second frame is being rendered after an engine_update that moved a
\* door, animated the sprite and aged the particles.
C20_Witness ==
    /\ pc = "walls"
    /\ engine.frame_count = 2
    /\ steps = UpdateOrder
    /\ world.doors[1].open_amount > 0
    /\ \E i \in DOMAIN sprites : sprites[i].animation_frame > 0
    /\ particles # <<>>
    /\ \A i \in DOMAIN particles : particles[i].lifetime < 20
    /\ camera.physics.velocity # <<0, 0>>

---------------------------------------------------------------------------
(* The wall pass on rays that end without a hit (engine.c).                *)

\* The stores of the wall pass into column x.
WallStores(x) == {k \in 1 .. Len(writes) : writes[k].by = "wall" /\ writes[k].x = x}

\* C21: if the DDA for column x ends without hitting a solid tile or a door
\* (hit == false: the ray has left the map), the wall pass draws nothing in
\* that column: z_buffer[x] and every colour-buffer pixel of column x keep
\* what the earlier passes left.
C21_NoHitDrawsNothing ==
    AfterWalls =>
        \A x \in Columns :
            ~raycast_dda(world, camera, x).hit =>
                /\ WallStores(x) = {}
                /\ \A y \in Rows : color_buffer[Pixel(x, y)][1] # "wall"

---------------------------------------------------------------------------
(* SpecSample: texture_sample and texture_sample_bilinear (particles.c)    *)
(* on textures of several sizes.  A coordinate u or v is n / UvScale; a    *)
(* texture is [width, height, pixels], pixels[y * width + x + 1] the texel  *)
(* the C array holds at index y * width + x.                                *)

UvScale == 4

\* a % b of C for b > 0: the remainder has the sign of a.
Rem(a, b) == a - b * Trunc(a, b)

\* floorf(n / d) for d > 0.
Floor(n, d) == n \div d

\* The texels of a generated texture, each index a colour of its own.
TexelAt(i) == <<(40 * i) % 256, 255 - 20 * i, 7 * i>>

Texture(width, height) ==
    [ width |-> width, height |-> height,
      pixels |-> [i \in 1 .. width * height |-> TexelAt(i - 1)] ]

SampleTextures == {Texture(1, 1), Texture(2, 2), Texture(3, 2), Texture(4, 1)}

\* u and v in [-1, 1]; the whole numbers added to them.
SampleCoords == -UvScale .. UvScale

Shifts == {-1, 0, 1}

\* x = (int)(u * width) % width; if (x < 0) x += width;
WrapTexel(n, size) ==
    LET x == Rem(Trunc(n * size, UvScale), size)
    IN  IF x < 0 THEN x + size ELSE x

\* The index texture_sample reads: y * width + x.
SampleIndex(texture, u, v) ==
    WrapTexel(v, texture.height) * texture.width + WrapTexel(u, texture.width)

\* texture_sample(texture, u, v) for a texture with pixel data.
texture_sample_at(texture, u, v) == texture.pixels[SampleIndex(texture, u, v) + 1]

\* x0 and x1 of texture_sample_bilinear with fx = fn / (2 * UvScale):
\* x = u * width - 0.5, x0 = floorf(x), x1 = x0 + 1, each wrapped by
\* (x % width + width) % width.
BilinearAxis(n, size) ==
    LET xn == 2 * n * size - UvScale
        x0 == Floor(xn, 2 * UvScale)
    IN  [ x0 |-> Rem(Rem(x0, size) + size, size),
          x1 |-> Rem(Rem(x0 + 1, size) + size, size),
          fn |-> xn - x0 * 2 * UvScale ]

\* The four indices texture_sample_bilinear reads: c00, c10, c01, c11.
BilinearIndices(texture, u, v) ==
    LET ax == BilinearAxis(u, texture.width)
        ay == BilinearAxis(v, texture.height)
    IN  << ay.x0 * texture.width + ax.x0, ay.x0 * texture.width + ax.x1,
           ay.x1 * texture.width + ax.x0, ay.x1 * texture.width + ax.x1 >>

\* texture_sample_bilinear(texture, u, v) for a texture with pixel data:
\* each channel the weighted sum of the four texels, cut to a uint8_t.
texture_sample_bilinear(texture, u, v) ==
    LET ax  == BilinearAxis(u, texture.width)
        ay  == BilinearAxis(v, texture.height)
        one == 2 * UvScale
        at  == BilinearIndices(texture, u, v)
        c(k) == texture.pixels[at[k] + 1]
        blend(ch) ==
            Trunc(  c(1)[ch] * (one - ax.fn) * (one - ay.fn)
                  + c(2)[ch] * ax.fn * (one - ay.fn)
                  + c(3)[ch] * (one - ax.fn) * ay.fn
                  + c(4)[ch] * ax.fn * ay.fn, one * one)
    IN  <<blend(1), blend(2), blend(3)>>

\* The arguments of a call: a texture, (u, v) and the whole numbers k and m
\* by which the second sample is shifted.
SampleArgs ==
    [ op : {"none"}, texture : SampleTextures, u : SampleCoords, v : SampleCoords,
      k : Shifts, m : Shifts ]

InitSample ==
    /\ world = MakeWorld({}, {}, <<>>, 0)
    /\ camera = Camera(<<PosScale + Half, PosScale + Half>>, <<DirScale, 0>>)
    /\ texture_count = 4
    /\ textures = Loaded(4)
    /\ InitSubsystems
    /\ sprites = <<>>
    /\ particles = <<>>
    /\ z_buffer = ClearZ
    /\ color_buffer = ClearColor
    /\ post_fx = InitFx
    /\ passes = <<>>
    /\ writes = <<>>
    /\ ray = NoRay
    /\ call \in SampleArgs
    /\ pc = "sample"

SampleFrame ==
    UNCHANGED <<subsystems, world, texture_count, textures, camera, sprites, particles,
                z_buffer, color_buffer, post_fx, passes, writes, ray>>

\* What a call leaves: the colours returned for (u, v) and for
\* (u + k, v + m) and the indices of the pixel array read for each.
Sampled(op, result, reads, shifted, shifted_reads) ==
    [ op |-> op, texture |-> call.texture, u |-> call.u, v |-> call.v,
      k |-> call.k, m |-> call.m, result |-> result, reads |-> reads,
      shifted |-> shifted, shifted_reads |-> shifted_reads ]

\* texture_sample at (u, v) and at (u + k, v + m).
TextureSample ==
    /\ pc = "sample"
    /\ LET u2 == call.u + call.k * UvScale
           v2 == call.v + call.m * UvScale
       IN  call' = Sampled("texture_sample",
                           texture_sample_at(call.texture, call.u, call.v),
                           {SampleIndex(call.texture, call.u, call.v)},
                           texture_sample_at(call.texture, u2, v2),
                           {SampleIndex(call.texture, u2, v2)})
    /\ pc' = "return"
    /\ SampleFrame

\* texture_sample_bilinear at (u, v) and at (u + k, v + m).
TextureSampleBilinear ==
    /\ pc = "sample"
    /\ LET u2 == call.u + call.k * UvScale
           v2 == call.v + call.m * UvScale
       IN  call' = Sampled("texture_sample_bilinear",
                           texture_sample_bilinear(call.texture, call.u, call.v),
                           {BilinearIndices(call.texture, call.u, call.v)[i] : i \in 1 .. 4},
                           texture_sample_bilinear(call.texture, u2, v2),
                           {BilinearIndices(call.texture, u2, v2)[i] : i \in 1 .. 4})
    /\ pc' = "return"
    /\ SampleFrame

NextSample == TextureSample \/ TextureSampleBilinear

SpecSample == InitSample /\ [][NextSample]_vars

\* The texels of call.texture as indices of its pixel array.
TexelIndices == 0 .. call.texture.width * call.texture.height - 1

\* C22: sampling wraps around: for a loaded texture, all (u, v), negative
\* ones included, and all integers k, m, texture_sample(u + k, v + m) returns
\* the texel texture_sample(u, v) returns, likewise texture_sample_bilinear,
\* and every texel index read lies in [0, width * height).
C22_SamplingWraps ==
    call.op \in {"texture_sample", "texture_sample_bilinear"} =>
        /\ call.shifted = call.result
        /\ call.reads \subseteq TexelIndices
        /\ call.shifted_reads \subseteq TexelIndices

\* What of C22 holds of the code: every index read is in range, the bilinear
\* sampler is periodic, and texture_sample is periodic where u, v, u + k and
\* v + m are all non-negative.
SamplingInRange ==
    call.op \in {"texture_sample", "texture_sample_bilinear"} =>
        /\ call.reads \subseteq TexelIndices
        /\ call.shifted_reads \subseteq TexelIndices
        /\ (\/ call.op = "texture_sample_bilinear"
            \/ /\ call.u >= 0 /\ call.v >= 0
               /\ call.u + call.k * UvScale >= 0
               /\ call.v + call.m * UvScale >= 0)
              => call.shifted = call.result

---------------------------------------------------------------------------
(* SpecFloor: the floor and ceiling loop of engine_render, a call of       *)
(* raycast_floor_ceiling per step; call.y is the loop variable.             *)

InitFloor ==
    /\ \/ \E l \in Layouts : world = MakeWorld(l.solid, l.open, <<>>, 0)
       \/ world = MakeWorld({}, {}, <<Door(3, 2, DoorScale \div 2 + 1, FALSE)>>, 0)
    /\ \E px \in CamXs, z \in EyeHeights,
          a \in {<<DirScale, 0>>, <<-DirScale, 0>>, <<0, DirScale>>, <<Diag, Diag>>} :
          /\ CameraFree(world, <<px, 2 * PosScale + Half>>)
          /\ camera = [Camera(<<px, 2 * PosScale + Half>>, a) EXCEPT !.z_position = z]
    /\ texture_count = 4
    /\ textures = Loaded(4)
    /\ InitSubsystems
    /\ sprites = <<>>
    /\ particles = <<>>
    /\ post_fx = InitFx
    /\ z_buffer = ClearZ
    /\ color_buffer = ClearColor
    /\ passes = <<"clear">>
    /\ writes = <<>>
    /\ ray = NoRay
    /\ call = [op |-> "engine_render", y |-> SCREEN_HEIGHT \div 2]
    /\ pc = "floor_ceiling"

\* An iteration of for (y = SCREEN_HEIGHT / 2; y < SCREEN_HEIGHT; y++):
\* raycast_floor_ceiling(engine, y, 0), with p and row_distance as the call
\* computes them.
FloorRow ==
    /\ pc = "floor_ceiling"
    /\ call.y < SCREEN_HEIGHT
    /\ \E strays \in SUBSET Columns :
          /\ call.y # SCREEN_HEIGHT \div 2 => strays = {}
          /\ SetBuffers(raycast_floor_ceiling(Buffers, world, texture_count, textures,
                                              camera, call.y, strays))
    /\ call' = [ op |-> "raycast_floor_ceiling", y |-> call.y + 1,
                 row |-> call.y, p |-> call.y - SCREEN_HEIGHT \div 2,
                 row_distance |-> RowDistance(camera, call.y) ]
    /\ UNCHANGED <<subsystems, world, texture_count, textures, camera, sprites, particles,
                   post_fx, pc, passes, ray>>

\* The loop is left: the wall pass is next.
FloorRowsDone ==
    /\ pc = "floor_ceiling"
    /\ call.y >= SCREEN_HEIGHT
    /\ Done("floor_ceiling")
    /\ UNCHANGED <<subsystems, world, texture_count, textures, camera, sprites, particles,
                   z_buffer, color_buffer, post_fx, writes, ray, call>>

NextFloor == FloorRow \/ FloorRowsDone

SpecFloor == InitFloor /\ [][NextFloor]_vars

\* C23: the floor/ceiling pass never divides by p = y - SCREEN_HEIGHT / 2
\* equal to 0: every row y the loop of engine_render passes to
\* raycast_floor_ceiling has p # 0.
C23_HorizonRowSkipped ==
    call.op = "raycast_floor_ceiling" => call.p # 0

\* The rows below the horizon row are what the claim describes: p > 0 and a
\* finite row_distance; the loop passes each row from SCREEN_HEIGHT / 2 to
\* SCREEN_HEIGHT - 1 once, in order.
RowsBelowHorizon ==
    call.op = "raycast_floor_ceiling" =>
        /\ call.row \in SCREEN_HEIGHT \div 2 .. SCREEN_HEIGHT - 1
        /\ call.p = 0 <=> call.row = SCREEN_HEIGHT \div 2
        /\ call.p = 0 <=> ~IsFinite(call.row_distance)
        /\ call.p >= 0

---------------------------------------------------------------------------
(* SpecPostFx: the stages of rendering.c that work through a copy of the   *)
(* image (bloom, motion blur, chromatic aberration, FXAA), a pixel of the  *)
(* output per step.  call.order is the order the pixels are visited in:    *)
(* the code's is row by row; the others are there to compare with.  A      *)
(* strength is in tenths.                                                   *)

PixelCount == SCREEN_WIDTH * SCREEN_HEIGHT

\* y = 0 .. SCREEN_HEIGHT - 1 outside, x = 0 .. SCREEN_WIDTH - 1 inside.
RowMajor == [k \in 1 .. PixelCount |-> k - 1]

Backwards == [k \in 1 .. PixelCount |-> PixelCount - k]

ColumnMajor ==
    [k \in 1 .. PixelCount |-> Pixel((k - 1) \div SCREEN_HEIGHT, (k - 1) % SCREEN_HEIGHT)]

VisitOrders == {RowMajor, Backwards, ColumnMajor}

\* The buffer the current colour buffer would be read from if a stage took
\* its neighbours in place.
TapsInPlace(scratch, color) == color

\* The buffer a stage takes the pixels around (x, y) from:
\* post_process_buffer, filled before the loop over the pixels.
Taps(scratch, color) == scratch

RECURSIVE SumFrom(_, _, _)
SumFrom(f, lo, hi) == IF lo > hi THEN 0 ELSE f[lo] + SumFrom(f, lo + 1, hi)

\* The first loop of post_process_bloom: post_process_buffer[idx] is the
\* pixel if it is bright, else 0.
BloomExtract(color, fx) ==
    [n \in DOMAIN color |->
        IF IsBright(Rgb(color[n]), fx.bloom_threshold)
        THEN color[n] ELSE Recolour(color[n], <<0, 0, 0>>)]

\* The second loop: temp, the horizontal blur of post_process_buffer.
BloomHorizontal(scratch, mode) ==
    [n \in DOMAIN scratch |->
        LET y == n \div SCREEN_WIDTH
            x == n % SCREEN_WIDTH
            h(ch) == Blur(LAMBDA sx : Rgb(scratch[y * SCREEN_WIDTH + sx])[ch],
                          x, SCREEN_WIDTH)
        IN  Recolour(scratch[n], << Narrow(TruncQ(h(1), 10000), mode),
                                    Narrow(TruncQ(h(2), 10000), mode),
                                    Narrow(TruncQ(h(3), 10000), mode) >>)]

\* The body of the third loop for pixel n: the vertical blur of temp times
\* bloom_intensity added to the pixel's own colour.
BloomPixel(original, temp, n, fx, mode) ==
    LET y == n \div SCREEN_WIDTH
        x == n % SCREEN_WIDTH
        in == fx.bloom_intensity[1]
        id == fx.bloom_intensity[2]
        v(ch) == Blur(LAMBDA sy : Rgb(temp[sy * SCREEN_WIDTH + x])[ch], y, SCREEN_HEIGHT)
        out(ch) == Narrow(TruncQ(Rgb(original)[ch] * 10000 * id + v(ch) * in,
                                 10000 * id), mode)
    IN  Recolour(original, <<out(1), out(2), out(3)>>)

\* offset = (int)(aberration_strength * 3.0f)
AberrationOffset(fx) == Trunc(fx.aberration_strength * 3, 10)

\* The body of the loop of post_process_chromatic_aberration for pixel n:
\* red from x - offset, green from x, blue from x + offset, 0 off the row.
ChromaticPixel(original, taps, n, offset) ==
    LET y  == n \div SCREEN_WIDTH
        x  == n % SCREEN_WIDTH
        rx == x - offset
        bx == x + offset
    IN  Recolour(original,
                 << IF rx >= 0 /\ rx < SCREEN_WIDTH
                    THEN Rgb(taps[y * SCREEN_WIDTH + rx])[1] ELSE 0,
                    Rgb(taps[n])[2],
                    IF bx >= 0 /\ bx < SCREEN_WIDTH
                    THEN Rgb(taps[y * SCREEN_WIDTH + bx])[3] ELSE 0 >>)

post_process_chromatic_aberration(color, fx) ==
    [n \in DOMAIN color |-> ChromaticPixel(color[n], color, n, AberrationOffset(fx))]

\* The pixels the loops of post_process_fxaa visit: y = 1 .. SCREEN_HEIGHT - 2,
\* x = 1 .. SCREEN_WIDTH - 2.
Interior(n) ==
    /\ n \div SCREEN_WIDTH >= 1 /\ n \div SCREEN_WIDTH < SCREEN_HEIGHT - 1
    /\ n % SCREEN_WIDTH >= 1 /\ n % SCREEN_WIDTH < SCREEN_WIDTH - 1

\* The body of the loop of post_process_fxaa for pixel n: where the sum of
\* the luma differences to the four neighbours is above EDGE_THRESHOLD
\* (0.125, luma = (r + g + b) / (3 * 255)) the pixel becomes the mean of the
\* five; else it is not stored.
FxaaPixel(original, taps, n) ==
    LET center == Rgb(taps[n])
        top    == Rgb(taps[n - SCREEN_WIDTH])
        bottom == Rgb(taps[n + SCREEN_WIDTH])
        left   == Rgb(taps[n - 1])
        right  == Rgb(taps[n + 1])
        luma(c) == c[1] + c[2] + c[3]
        edge == Abs(luma(center) - luma(top)) + Abs(luma(center) - luma(bottom))
                + Abs(luma(center) - luma(left)) + Abs(luma(center) - luma(right))
        blend(ch) == (center[ch] + top[ch] + bottom[ch] + left[ch] + right[ch]) \div 5
    IN  IF 8 * edge > 3 * 255
        THEN Recolour(original, <<blend(1), blend(2), blend(3)>>)
        ELSE original

post_process_fxaa(color) ==
    [n \in DOMAIN color |-> IF Interior(n) THEN FxaaPixel(color[n], color, n) ELSE color[n]]

\* vec2_length(velocity), cut to a whole velocity unit.
Speed(velocity) == Isqrt(SquaredLength(velocity))

\* samples = (int)(velocity * motion_blur_strength * 10.0f), at most 16, the
\* velocity in cells a second.
BlurSamples(velocity, fx) ==
    Min(16, Trunc(Speed(velocity) * 10 * fx.motion_blur_strength, PosScale * VelScale))

\* vec2_normalize(velocity), in DirScale units.
BlurDirection(velocity) ==
    << TruncQ(velocity[1] * DirScale, Speed(velocity)),
       TruncQ(velocity[2] * DirScale, Speed(velocity)) >>

\* velocity < 0.01f or samples < 2: post_process_motion_blur returns at once.
BlurSkipped(velocity, fx) == ~Moving(velocity) \/ BlurSamples(velocity, fx) < 2

\* The body of the loop of post_process_motion_blur for pixel n: the mean
\* over the samples of the pixels along blur_dir, those off the screen
\* counted as 0.
MotionBlurPixel(original, taps, n, blur_dir, samples) ==
    LET y  == n \div SCREEN_WIDTH
        x  == n % SCREEN_WIDTH
        offset(s) == (s - samples \div 2) * 2
        sx(s) == x + TruncQ(blur_dir[1] * offset(s), DirScale)
        sy(s) == y + TruncQ(blur_dir[2] * offset(s), DirScale)
        inside(s) == sx(s) >= 0 /\ sx(s) < SCREEN_WIDTH /\ sy(s) >= 0 /\ sy(s) < SCREEN_HEIGHT
        sum(ch) == SumFrom([s \in 0 .. samples - 1 |->
                               IF inside(s)
                               THEN Rgb(taps[sy(s) * SCREEN_WIDTH + sx(s)])[ch] ELSE 0],
                           0, samples - 1)
    IN  Recolour(original, << Trunc(sum(1), samples), Trunc(sum(2), samples),
                              Trunc(sum(3), samples) >>)

post_process_motion_blur(color, velocity, fx) ==
    IF BlurSkipped(velocity, fx) THEN color
    ELSE [n \in DOMAIN color |->
             MotionBlurPixel(color[n], color, n, BlurDirection(velocity),
                             BlurSamples(velocity, fx))]


\* The stages and the pc of each one's loop over the pixels.
Stages == {"bloom", "motion_blur", "chromatic_aberration", "fxaa"}

\* 0.1 cells a second as a velocity.
TenthCells(k) == (k * PosScale * VelScale) \div 100

\* An image in which neighbouring pixels differ.
Gradient ==
    [n \in 0 .. PixelCount - 1 |->
        <<"wall", <<(n * 37) % 256, (255 - n * 10) % 256, (n * n * 5) % 256>>>>]

PostFxImages ==
    {Gradient} \cup
    {Spotted(c, at, <<255, 255, 255>>) :
        c \in {<<0, 0, 0>>, <<100, 127, 128>>}, at \in SpotPlaces}

InitPostFx ==
    /\ world = MakeWorld({}, {}, <<>>, 0)
    /\ \E v \in {<<0, 0>>, <<TenthCells(3), 0>>, <<0, -TenthCells(4)>>,
                 <<TenthCells(2), TenthCells(2)>>} :
          camera = [Camera(<<PosScale + Half, 2 * PosScale + Half>>, <<DirScale, 0>>)
                       EXCEPT !.physics.velocity = v]
    /\ texture_count = 4
    /\ textures = Loaded(4)
    /\ sprites = <<>>
    /\ particles = <<>>
    /\ z_buffer = ClearZ
    /\ color_buffer \in PostFxImages
    /\ \E a \in {0, 4, 7} :
          post_fx = [ bloom_enabled |-> TRUE, motion_blur_enabled |-> TRUE,
                      chromatic_aberration |-> TRUE, vignette |-> TRUE,
                      fxaa_enabled |-> TRUE, bloom_threshold |-> <<8, 10>>,
                      bloom_intensity |-> <<3, 10>>, motion_blur_strength |-> 10,
                      aberration_strength |-> a ]
    /\ passes = <<>>
    /\ writes = <<>>
    /\ ray = NoRay
    /\ \E order \in VisitOrders : call = [op |-> "none", order |-> order]
    /\ pc \in Stages
    /\ InitSubsystems
    /\ pc = "chromatic_aberration" \/ post_fx.aberration_strength = 0
    /\ pc = "motion_blur" \/ camera.physics.velocity = <<0, 0>>

PostFxFrame ==
    UNCHANGED <<subsystems, world, texture_count, textures, camera, sprites, particles,
                z_buffer, post_fx, writes, ray>>

\* A stage at the top of its loop over the pixels: `scratch` is
\* post_process_buffer, `temp` bloom's temp, `start` the colour buffer as the
\* stage found it and i the number of pixels visited.
AtPixels(stage, order, scratch, temp, mode) ==
    [ op |-> stage, order |-> order, i |-> 0, start |-> color_buffer,
      scratch |-> scratch, temp |-> temp, mode |-> mode ]

\* The pixel a step visits and the record after it.
Visiting == call.order[call.i + 1]

Visited == {call.order[k] : k \in 1 .. call.i}

StepPixel(stage, pixel) ==
    /\ pc = stage
    /\ call.op = stage
    /\ call.i < Len(call.order)
    /\ color_buffer' = [color_buffer EXCEPT ![Visiting] = pixel]
    /\ call' = [call EXCEPT !.i = @ + 1]
    /\ UNCHANGED <<pc, passes>>
    /\ PostFxFrame

\* post_process_bloom up to its third loop.
BloomBlurRows ==
    /\ pc = "bloom"
    /\ call.op = "none"
    /\ \E mode \in NarrowModes :
          LET scratch == BloomExtract(color_buffer, post_fx)
          IN  call' = AtPixels("bloom", call.order, scratch,
                               BloomHorizontal(scratch, mode), mode)
    /\ UNCHANGED <<color_buffer, pc, passes>>
    /\ PostFxFrame

BloomBlendPixel ==
    StepPixel("bloom", BloomPixel(color_buffer[Visiting], call.temp, Visiting,
                                  post_fx, call.mode))

\* The memcpy of the colour buffer into post_process_buffer.
ChromaticSnapshot ==
    /\ pc = "chromatic_aberration"
    /\ call.op = "none"
    /\ call' = AtPixels("chromatic_aberration", call.order, color_buffer, <<>>, "none")
    /\ UNCHANGED <<color_buffer, pc, passes>>
    /\ PostFxFrame

ChromaticStorePixel ==
    StepPixel("chromatic_aberration",
              ChromaticPixel(color_buffer[Visiting], Taps(call.scratch, color_buffer),
                             Visiting, AberrationOffset(post_fx)))

\* The memcpy of post_process_fxaa; its loops leave the border out.
FxaaSnapshot ==
    /\ pc = "fxaa"
    /\ call.op = "none"
    /\ call' = AtPixels("fxaa", SelectSeq(call.order, Interior), color_buffer, <<>>, "none")
    /\ UNCHANGED <<color_buffer, pc, passes>>
    /\ PostFxFrame

FxaaStorePixel ==
    StepPixel("fxaa", FxaaPixel(color_buffer[Visiting], Taps(call.scratch, color_buffer),
                                Visiting))

\* post_process_motion_blur up to its loop: it returns before the memcpy
\* when the camera is too slow.
MotionBlurSnapshot ==
    /\ pc = "motion_blur"
    /\ call.op = "none"
    /\ call' = IF BlurSkipped(camera.physics.velocity, post_fx)
               THEN AtPixels("motion_blur", <<>>, <<>>, <<>>, "none")
               ELSE AtPixels("motion_blur", call.order, color_buffer, <<>>, "none")
    /\ UNCHANGED <<color_buffer, pc, passes>>
    /\ PostFxFrame

MotionBlurStorePixel ==
    StepPixel("motion_blur",
              MotionBlurPixel(color_buffer[Visiting], Taps(call.scratch, color_buffer),
                              Visiting, BlurDirection(camera.physics.velocity),
                              BlurSamples(camera.physics.velocity, post_fx)))

\* The loop is through: the stage returns.
StageReturn ==
    /\ pc \in Stages
    /\ call.op = pc
    /\ call.i = Len(call.order)
    /\ passes' = Append(passes, pc)
    /\ pc' = "return"
    /\ UNCHANGED <<color_buffer, call>>
    /\ PostFxFrame

NextPostFx ==
    \/ BloomBlurRows \/ BloomBlendPixel
    \/ MotionBlurSnapshot \/ MotionBlurStorePixel
    \/ ChromaticSnapshot \/ ChromaticStorePixel
    \/ FxaaSnapshot \/ FxaaStorePixel
    \/ StageReturn

SpecPostFx == InitPostFx /\ [][NextPostFx]_vars

\* The stage of call.op applied to the image it started from, every pixel
\* computed from that image.
StageResult ==
    CASE call.op = "bloom" -> post_process_bloom(call.start, post_fx, call.mode)
      [] call.op = "motion_blur" ->
             post_process_motion_blur(call.start, camera.physics.velocity, post_fx)
      [] call.op = "chromatic_aberration" ->
             post_process_chromatic_aberration(call.start, post_fx)
      [] call.op = "fxaa" -> post_process_fxaa(call.start)

\* C24: in bloom, motion blur, chromatic aberration and FXAA every output
\* pixel is computed only from the image as it was when the stage began,
\* never from a neighbour the stage has already rewritten: at each point of
\* the loop the visited pixels hold what the stage yields on the starting
\* image and the others still hold their starting value, so the result of
\* the stage is the same for every order of the visits.
C24_StagesReadSnapshot ==
    call.op \in Stages =>
        color_buffer = [n \in DOMAIN call.start |->
                           IF n \in Visited THEN StageResult[n] ELSE call.start[n]]

\* A stage has run through the pixels in another order than the code's and
\* has rewritten a pixel after it had rewritten one of the pixels the later
\* one is computed from.
C24_Witness ==
    /\ pc = "return"
    /\ call.op \in Stages
    /\ call.order # RowMajor /\ call.order # SelectSeq(RowMajor, Interior)
    /\ \E j, k \in 1 .. Len(call.order) :
          /\ k < j
          /\ Abs(call.order[k] - call.order[j]) \in {1, SCREEN_WIDTH}
          /\ color_buffer[call.order[k]] # call.start[call.order[k]]
          /\ color_buffer[call.order[j]] # call.start[call.order[j]]

---------------------------------------------------------------------------
(* The flags of a door (physics.c), under SpecDoor.                        *)

\* The door the last call was made on, as the call left it.
DoorAfter == world.doors[1]

\* C25: a door created with both flags false never has is_opening and
\* is_closing both true, whatever door_open, door_close and door_update calls
\* are made; door_open on a door that is opening or fully open
\* (open_amount >= 1) and door_close on a door that is closing or fully
\* closed (open_amount <= 0) change nothing.
C25_FlagsExclusive ==
    pc = "doors" =>
        /\ \A i \in 1 .. Len(world.doors) :
              ~(world.doors[i].is_opening /\ world.doors[i].is_closing)
        /\ (call.op = "door_open"
            /\ (call.door.is_opening \/ call.door.open_amount >= DoorScale))
              => DoorAfter = call.door
        /\ (call.op = "door_close"
            /\ (call.door.is_closing \/ call.door.open_amount <= 0))
              => DoorAfter = call.door

\* door_open has turned a closing door around.
C25_Witness ==
    /\ pc = "doors" /\ call.op = "door_open"
    /\ call.door.is_closing
    /\ call.door.open_amount > 0 /\ call.door.open_amount < DoorScale
    /\ DoorAfter.is_opening /\ ~DoorAfter.is_closing

---------------------------------------------------------------------------
(* SpecDoorLive: any calls on a door, then a last door_open or door_close  *)
(* after which only door_update is called, with one delta_time > 0 (in     *)
(* call.arg), as engine_update does once a frame.                           *)

InitDoorLive == InitDoor

\* The last door_open: the door is not fully open.
DoorOpenLast ==
    /\ pc = "doors"
    /\ DoorAfter.open_amount < DoorScale
    /\ \E dt \in DeltaTimes \ {0} :
          call' = [op |-> "door_open", door |-> DoorAfter, arg |-> <<dt>>,
                   result |-> FALSE]
    /\ world' = [world EXCEPT !.doors[1] = door_open(@)]
    /\ pc' = "opening"
    /\ UNCHANGED <<subsystems, texture_count, textures, camera, sprites, particles,
                   z_buffer, color_buffer, post_fx, passes, writes, ray>>

\* The last door_close: the door is not fully closed.
DoorCloseLast ==
    /\ pc = "doors"
    /\ DoorAfter.open_amount > 0
    /\ \E dt \in DeltaTimes \ {0} :
          call' = [op |-> "door_close", door |-> DoorAfter, arg |-> <<dt>>,
                   result |-> FALSE]
    /\ world' = [world EXCEPT !.doors[1] = door_close(@)]
    /\ pc' = "closing"
    /\ UNCHANGED <<subsystems, texture_count, textures, camera, sprites, particles,
                   z_buffer, color_buffer, post_fx, passes, writes, ray>>

\* The door loop of engine_update in a frame after the last call.
DoorUpdateFixed ==
    /\ pc \in {"opening", "closing"}
    /\ world' = [world EXCEPT !.doors[1] = door_update(@, call.arg[1])]
    /\ UNCHANGED call
    /\ DoorFrame

NextDoorLive == DoorOpen \/ DoorClose \/ DoorUpdate \/ DoorOpenLast \/ DoorCloseLast
                \/ DoorUpdateFixed

\* The main loop calls engine_update, and with it door_update, in every
\* iteration.
SpecDoorLive == InitDoorLive /\ [][NextDoorLive]_vars /\ WF_vars(DoorUpdateFixed)

FullyOpen == DoorAfter.open_amount = DoorScale /\ ~DoorAfter.is_opening

FullyClosed == DoorAfter.open_amount = 0 /\ ~DoorAfter.is_closing

\* C26: after door_open on a door with open_amount < 1, with no door_close
\* and door_update called again and again with a fixed delta_time > 0, the
\* door reaches open_amount = 1 with is_opening false and stays there;
\* likewise after door_close it reaches open_amount = 0 with is_closing
\* false and stays there.
C26_DoorFinishesMoving ==
    /\ (pc = "opening") ~> [](FullyOpen)
    /\ (pc = "closing") ~> [](FullyClosed)

\* A door that was closing has been opened and has come to rest fully open.
C26_Witness ==
    /\ pc = "opening"
    /\ call.door.is_closing /\ call.door.open_amount < DoorScale \div 2
    /\ FullyOpen /\ ~DoorAfter.is_closing

---------------------------------------------------------------------------
(* SpecHeldKey: the main loop with the E key held in every frame and the   *)
(* player standing still: the door block of application_update, then the   *)
(* door loop of engine_update, with delta_time at its cap of one tick.      *)

\* The cells (px + dx, py + dy) of the loops for (dy = -1; dy <= 1; dy++)
\* for (dx = -1; dx <= 1; dx++), numbered 0 .. 8 in the order of the visits,
\* at which the test door->x == px + dx && door->y == py + dy holds.
KeyCells(door, px, py) ==
    {k \in 0 .. 8 : door.x = px + (k % 3) - 1 /\ door.y = py + (k \div 3) - 1}

\* What the handler calls on a door it finds: door_open when the door is
\* less than half open, door_close otherwise; n such calls in a row.
RECURSIVE KeyCalls(_, _)
KeyCalls(door, n) ==
    IF n = 0 THEN door
    ELSE KeyCalls(IF 2 * door.open_amount < DoorScale
                  THEN door_open(door) ELSE door_close(door), n - 1)

\* if (app->keys[SDL_SCANCODE_E]) { ... } of application_update: a call
\* touches the one door it is made on, so the doors are taken one by one;
\* calls[i] is the number of calls made on door i.
HandleDoorKey(doors, position) ==
    LET px == Trunc(position[1], PosScale)
        py == Trunc(position[2], PosScale)
    IN  [ doors |-> [i \in DOMAIN doors |->
                        KeyCalls(doors[i], Cardinality(KeyCells(doors[i], px, py)))],
          calls |-> [i \in DOMAIN doors |-> Cardinality(KeyCells(doors[i], px, py))] ]

\* Cells for a door: next to the player's, two cells away, across the room.
DoorPlaces == {<<2, 2>>, <<3, 3>>, <<4, 2>>, <<6, 4>>}

InitHeldKey ==
    /\ \E a \in DoorPlaces, b \in DoorPlaces, h \in BOOLEAN :
          /\ a # b
          /\ world = MakeWorld({}, {}, <<Door(a[1], a[2], 0, h), Door(b[1], b[2], 0, ~h)>>, 0)
    /\ \E px \in CamXs, py \in CamYs :
          camera = Camera(<<px, py>>, <<DirScale, 0>>)
    /\ texture_count = 4
    /\ textures = Loaded(4)
    /\ sprites = <<>>
    /\ particles = <<>>
    /\ z_buffer = ClearZ
    /\ color_buffer = ClearColor
    /\ post_fx = InitFx
    /\ passes = <<>>
    /\ writes = <<>>
    /\ ray = NoRay
    /\ call = NoCall
    /\ pc = "key_handler"
    /\ scripts = <<>>
    /\ function_registry = <<>>
    /\ audio_sources = <<>>
    /\ audio = [device |-> 0, lock |-> "free", cursor |-> 0]
    /\ thread_pool = [use_multithreading |-> FALSE, pool |-> ZeroedPool]
    /\ workers = NoWorkers
    /\ lights = <<>>
    /\ app = [running |-> TRUE, keys |-> {"E"}, delta_time |-> 1]
    /\ engine = [delta_time |-> 0, frame_count |-> 0, time_accumulator |-> 0]
    /\ steps = <<>>

HeldKeyFrame ==
    UNCHANGED <<texture_count, textures, camera, sprites, particles, z_buffer,
                color_buffer, post_fx, passes, writes, ray, scripts, function_registry,
                audio_sources, audio, thread_pool, workers, lights, app, engine, steps>>

\* application_update with E down, up to its call of engine_update.
KeyHandler ==
    /\ pc = "key_handler"
    /\ "E" \in app.keys
    /\ LET h == HandleDoorKey(world.doors, camera.position)
       IN  /\ world' = [world EXCEPT !.doors = h.doors]
           /\ call' = [op |-> "application_update", calls |-> h.calls]
    /\ pc' = "door_updates"
    /\ HeldKeyFrame

\* The door loop of engine_update; the next iteration of the main loop
\* follows.
DoorUpdates ==
    /\ pc = "door_updates"
    /\ world' = [world EXCEPT !.doors =
                    [i \in DOMAIN @ |-> door_update(@[i], app.delta_time)]]
    /\ pc' = "key_handler"
    /\ UNCHANGED call
    /\ HeldKeyFrame

NextHeldKey == KeyHandler \/ DoorUpdates

\* The loop runs for as long as app.running is set, and nothing clears it.
SpecHeldKey == InitHeldKey /\ [][NextHeldKey]_vars /\ WF_vars(NextHeldKey)

\* Door i stands in one of the nine cells around the player's.
NearPlayer(i) ==
    /\ Abs(world.doors[i].x - Trunc(camera.position[1], PosScale)) <= 1
    /\ Abs(world.doors[i].y - Trunc(camera.position[2], PosScale)) <= 1

OpensIfNear(i) ==
    NearPlayer(i) =>
        <>(world.doors[i].open_amount = DoorScale /\ ~world.doors[i].is_opening)

\* C27: with E held in every frame and a fixed delta_time > 0, a door in the
\* 3x3 cells around the player that starts fully closed becomes fully open
\* (open_amount = 1, is_opening false) eventually; in a frame a door gets at
\* most one door_open or door_close call from the key handler.
C27_HeldKeyOpensDoor ==
    /\ OpensIfNear(1)
    /\ OpensIfNear(2)
    /\ [](call.op = "application_update" =>
             \A i \in DOMAIN call.calls : call.calls[i] <= 1)

\* What holds of the key handler: in a frame each door around the player
\* gets exactly one call and the others none, and no door ever opens
\* further than one update past the half.
OneCallPerDoor ==
    /\ call.op = "application_update" =>
          \A i \in DOMAIN call.calls :
              call.calls[i] = IF NearPlayer(i) THEN 1 ELSE 0
    /\ \A i \in DOMAIN world.doors :
          2 * world.doors[i].open_amount < DoorScale + 2 * DOOR_SPEED * app.delta_time

---------------------------------------------------------------------------
(* SpecPhysics: one call of physics_update on a body that stands free,     *)
(* with velocities and time steps large enough to carry it into walls,     *)
(* pillars and doors.                                                       *)

\* Velocity components: still, and 1.2, 2.4 and 5 position units a tick
\* either way.
BodySpeeds == {0, 1200, -1200, 2400, -2400, 5000, -5000}

\* The substep of a full-length frame (a quarter tick) and a whole tick.
StepTimes == {<<1, PHYSICS_SUBSTEPS>>, <<1, 1>>}

BodyPlaces ==
    {<<x, y>> : x \in PosScale + Half .. 3 * PosScale + Half,
                y \in PosScale + Half .. 2 * PosScale + Half}

InitPhysics ==
    /\ \/ \E l \in {Plain, Pillar} : world = MakeWorld(l.solid, l.open, <<>>, 0)
       \/ \E a \in {0, DoorScale \div 2} :
             world = MakeWorld({}, {}, <<Door(3, 2, a, FALSE)>>, 0)
    /\ \E pos \in BodyPlaces, vx \in BodySpeeds, vy \in BodySpeeds :
          /\ ~physics_check_collision(world, pos)
          /\ camera = [Camera(pos, <<DirScale, 0>>) EXCEPT !.physics.velocity = <<vx, vy>>]
    /\ \E dt \in StepTimes : call = [op |-> "none", delta_time |-> dt]
    /\ texture_count = 4
    /\ textures = Loaded(4)
    /\ InitSubsystems
    /\ sprites = <<>>
    /\ particles = <<>>
    /\ z_buffer = ClearZ
    /\ color_buffer = ClearColor
    /\ post_fx = InitFx
    /\ passes = <<>>
    /\ writes = <<>>
    /\ ray = NoRay
    /\ pc = "physics_update"

\* physics_update(engine, &camera.physics, delta_time)
PhysicsUpdate ==
    /\ pc = "physics_update"
    /\ camera' = [camera EXCEPT !.physics = physics_update(world, @, call.delta_time)]
    /\ call' = [op |-> "physics_update", delta_time |-> call.delta_time,
                before |-> camera.physics]
    /\ pc' = "return"
    /\ UNCHANGED <<subsystems, world, texture_count, textures, sprites, particles,
                   z_buffer, color_buffer, post_fx, passes, writes, ray>>

NextPhysics == PhysicsUpdate

SpecPhysics == InitPhysics /\ [][NextPhysics]_vars

\* The velocity after friction and the position it leads to in delta_time.
Slowed(body) ==
    <<Trunc(85 * body.velocity[1], 100), Trunc(85 * body.velocity[2], 100)>>

Target(body, delta_time) ==
    << body.position[1] + Displacement(Slowed(body)[1], delta_time),
       body.position[2] + Displacement(Slowed(body)[2], delta_time) >>

\* C28: if the body's position does not collide before physics_update, it
\* does not collide after it: the body has made the full move, the move along
\* x only with velocity.y = 0, the move along y only with velocity.x = 0, or
\* is back at the old position with both velocity components 0.
C28_StaysFree ==
    (call.op = "physics_update" /\ ~physics_check_collision(world, call.before.position))
        => LET old  == call.before.position
               v    == Slowed(call.before)
               to   == Target(call.before, call.delta_time)
               body == camera.physics
           IN  /\ ~physics_check_collision(world, body.position)
               /\ \/ body.position = to /\ body.velocity = v
                  \/ body.position = <<to[1], old[2]>> /\ body.velocity = <<v[1], 0>>
                  \/ body.position = <<old[1], to[2]>> /\ body.velocity = <<0, v[2]>>
                  \/ body.position = old /\ body.velocity = <<0, 0>>

\* A body moving diagonally was blocked in full and along x and slid along y.
C28_Witness ==
    /\ call.op = "physics_update"
    /\ ~physics_check_collision(world, call.before.position)
    /\ LET old == call.before.position
           to  == Target(call.before, call.delta_time)
       IN  /\ to[1] # old[1] /\ to[2] # old[2]
           /\ physics_check_collision(world, to)
           /\ physics_check_collision(world, <<to[1], old[2]>>)
           /\ camera.physics.position = <<old[1], to[2]>>
           /\ camera.physics.velocity[1] = 0 /\ camera.physics.velocity[2] # 0

\* Each way out of physics_update is taken: a body blocked on every side is
\* put back with its velocity cleared.
PutBack ==
    /\ call.op = "physics_update"
    /\ LET old == call.before.position
           to  == Target(call.before, call.delta_time)
       IN  /\ to[1] # old[1] /\ to[2] # old[2]
           /\ physics_check_collision(world, <<old[1], to[2]>>)
           /\ physics_check_collision(world, <<to[1], old[2]>>)
           /\ camera.physics = [position |-> old, velocity |-> <<0, 0>>]

---------------------------------------------------------------------------
(* SpecIndices: engine_render on scenes that push the rasterisers to the   *)
(* edges of their buffers: the camera pitched fully up or down with the    *)
(* head bob at either end, rays that leave the map through a gap in its    *)
(* border, sprites and particles next to the camera, behind it and off the *)
(* map.  The indices a pass uses are computed from the scene, which        *)
(* engine_render does not change.                                          *)

\* The indices one pass uses: into the colour buffer or a scratch buffer of
\* its size, into the z-buffer, into the map grids (<<x, y>>) and into
\* GAUSSIAN_KERNEL.
Indices(color, z, cells, kernel) ==
    [color |-> color, z |-> z, cells |-> cells, kernel |-> kernel]

\* raycast_floor_ceiling over its rows: a column whose cell passes the bounds
\* test indexes the texture grids there, the pixel of the row and of the
\* mirrored ceiling row, and z_buffer[x]. In the row with p = 0 any column may
\* be one.
FloorIndices ==
    LET horizon == SCREEN_HEIGHT \div 2
        at == {<<x, y>> \in Columns \X (horizon .. SCREEN_HEIGHT - 1) :
                  \/ y = horizon
                  \/ InMap(FloorCell(camera, y, x)[1], FloorCell(camera, y, x)[2])}
    IN  Indices({Pixel(a[1], a[2]) : a \in at}
                    \cup {(SCREEN_HEIGHT - a[2] - 1) * SCREEN_WIDTH + a[1] : a \in at},
                {a[1] : a \in at},
                {IF a[2] = horizon THEN <<0, 0>> ELSE FloorCell(camera, a[2], a[1]) :
                     a \in at},
                {})

\* The cells raycast_dda looks up from r on: those the loop reaches past its
\* bounds test.
RECURSIVE DDACells(_, _)
DDACells(map, r) ==
    IF ~LoopCondition(r) THEN {}
    ELSE LET n == Iterate(map, r)
         IN  (IF n.left_map THEN {} ELSE {<<n.map_x, n.map_y>>}) \cup DDACells(map, n)

\* The wall pass: the cells of each ray, and for a ray nearer than
\* MAX_RENDER_DISTANCE with a loaded texture the rows draw_start ..
\* draw_end - 1 of its column and z_buffer[x].
WallIndices ==
    LET r(x) == raycast_dda(world, camera, x)
        drawn == {x \in Columns : /\ RLt(r(x).distance, RenderDistance)
                                  /\ ValidTexture(r(x).texture_id, texture_count)}
    IN  Indices(UNION {{Pixel(x, y) : y \in DrawStart(camera, r(x)) ..
                                            DrawEnd(camera, r(x)) - 1} : x \in drawn},
                drawn,
                UNION {DDACells(world, RayInit(camera, x)) : x \in Columns},
                {})

Elements(s) == {s[k] : k \in DOMAIN s}

\* render_sprites: z_buffer[x] for each column of a sprite's span, the
\* pixels of the span.
SpriteIndices ==
    LET span(i) == SpriteSpan(camera, sprites[i])
    IN  Indices(UNION {{Pixel(x, y) : x \in Elements(span(i).xs),
                                      y \in Elements(span(i).ys)} : i \in DOMAIN sprites},
                UNION {IF span(i).ys = <<>> THEN {} ELSE Elements(span(i).xs) :
                           i \in DOMAIN sprites},
                {}, {})

\* particle_render: the pixels of the disc that pass its screen test.
ParticleIndices ==
    LET at == UNION {Elements(ParticleSpan(camera, particles[i])) : i \in DOMAIN particles}
    IN  Indices({a[2] * SCREEN_WIDTH + a[1] : a \in at}, {a[1] : a \in at}, {}, {})

\* post_process_bloom: every pixel, and in the two blurs the taps
\* i = -4 .. 4 that pass the edge test, with GAUSSIAN_KERNEL[abs(i)].
BloomIndices ==
    LET taps == {t \in Columns \X Rows \X (-4 .. 4) : TRUE}
        across == {t \in taps : ~(t[1] + t[3] < 0 \/ t[1] + t[3] >= SCREEN_WIDTH)}
        down   == {t \in taps : ~(t[2] + t[3] < 0 \/ t[2] + t[3] >= SCREEN_HEIGHT)}
    IN  Indices({t[2] * SCREEN_WIDTH + t[1] : t \in taps}
                    \cup {t[2] * SCREEN_WIDTH + (t[1] + t[3]) : t \in across}
                    \cup {(t[2] + t[3]) * SCREEN_WIDTH + t[1] : t \in down},
                {}, {},
                {Abs(t[3]) : t \in across \cup down})

\* Where sprites and particles are put, <<x, y, scale>>: touching the
\* camera's cell, in front of it or behind it, and off the map on either side.
EdgePlaces ==
    { <<2 * PosScale, 2 * PosScale + Half, 3>>,
      <<PosScale, 2 * PosScale, 3>>,
      <<4 * PosScale, 3 * PosScale, 1>>,
      <<-3 * PosScale, 2 * PosScale, 3>>,
      <<(MAP_WIDTH + 2) * PosScale, -PosScale, 1>> }

\* <<direction, position.x, pitch, bob_offset>>: pitch from -1 to 1,
\* bob_offset from -5 to 5 pixels.
Tilts ==
    { <<<<-DirScale, 0>>, PosScale + Half, -DoorScale, -5>>,
      <<<<Diag, Diag>>, PosScale + Half, -DoorScale, 5>>,
      <<<<-Diag, -Diag>>, 4 * PosScale + Half, -(DoorScale \div 3), 0>>,
      <<<<Diag, Diag>>, 4 * PosScale + Half, 0, 0>>,
      <<<<-Diag, -Diag>>, PosScale + Half, DoorScale \div 2, -5>>,
      <<<<-DirScale, 0>>, 4 * PosScale + Half, DoorScale, 5>> }

\* The map with tile (3, 0) of its border cleared.
Gap == CHOOSE l \in Layouts : l.open = {<<3, 0>>}

InitIndices ==
    /\ InitFrame
    /\ \/ world = MakeWorld(Gap.solid, Gap.open, <<>>, 0)
       \/ world = MakeWorld({}, {}, <<Door(3, 2, DoorScale \div 2 + 1, FALSE)>>, 0)
    /\ \E t \in Tilts :
          camera = [Camera(<<t[2], 2 * PosScale + Half>>, t[1])
                        EXCEPT !.pitch = t[3], !.bob_offset = t[4]]
    /\ texture_count = 4
    /\ textures = Loaded(4)
    /\ InitSubsystems
    /\ \E at \in EdgePlaces :
          /\ sprites = <<[Sprite(<<at[1], at[2]>>) EXCEPT !.scale = <<at[3], at[3]>>]>>
          /\ particles = <<Particle(<<at[1], at[2]>>, 8 - at[3])>>
    /\ post_fx = [InitFx EXCEPT !.bloom_enabled = TRUE, !.motion_blur_enabled = TRUE,
                                !.chromatic_aberration = TRUE, !.vignette = TRUE,
                                !.fxaa_enabled = TRUE]

SpecIndices == InitIndices /\ [][NextRender]_vars

Ran(p) == \E k \in 1 .. Len(passes) : passes[k] = p

InRange(ix) ==
    /\ ix.color \subseteq 0 .. SCREEN_WIDTH * SCREEN_HEIGHT - 1
    /\ ix.z \subseteq 0 .. SCREEN_WIDTH - 1
    /\ ix.cells \subseteq (0 .. MAP_WIDTH - 1) \X (0 .. MAP_HEIGHT - 1)
    /\ ix.kernel \subseteq 0 .. 4

---------------------------------------------------------------------------
(* The composite of post_process_bloom, under SpecBloom.                   *)

\* sum.r (g, b) of the third loop for pixel n of the buffer `before`, in
\* ten-thousandths: the vertical blur of temp.
Blurred(before, fx, mode, n, ch) ==
    LET temp == BloomHorizontal(BloomExtract(before, fx), mode)
    IN  Blur(LAMBDA sy : Rgb(temp[sy * SCREEN_WIDTH + (n % SCREEN_WIDTH)])[ch],
             n \div SCREEN_WIDTH, SCREEN_HEIGHT)

\* floor(blurred * bloom_intensity)
Glow(before, fx, mode, n, ch) ==
    TruncQ(Blurred(before, fx, mode, n, ch) * fx.bloom_intensity[1],
           10000 * fx.bloom_intensity[2])

\* C30: the additive composite saturates: every channel of every pixel
\* post_process_bloom stores is min(255, original + floor(blurred *
\* bloom_intensity)), so no channel gets darker and none wraps modulo 256.
C30_BloomSaturates ==
    call.op = "post_process_bloom" =>
        \A n \in DOMAIN color_buffer : \A ch \in 1 .. 3 :
            LET original == Rgb(call.before[n])[ch]
                stored   == Rgb(color_buffer[n])[ch]
            IN  /\ stored = Min(255, original + Glow(call.before, post_fx, call.mode, n, ch))
                /\ stored >= original

\* What holds of the composite in every build: a sum that fits a byte is
\* stored as it is.
SumsThatFitAreStored ==
    call.op = "post_process_bloom" =>
        \A n \in DOMAIN color_buffer : \A ch \in 1 .. 3 :
            LET sum == Rgb(call.before[n])[ch] + Glow(call.before, post_fx, call.mode, n, ch)
            IN  sum <= 255 => Rgb(color_buffer[n])[ch] = sum

====
